---- MODULE Spec2Model ----
(***************************************************************************)
(* Model of the scan engine of jira_dc_scanner.py: the paginated scan     *)
(* loop of AttachmentScanner, the duplicate catalog and statistics it     *)
(* folds attachments into, the SQLite store of StorageManager (one        *)
(* commit per save_* call), and the RateLimiter.                          *)
(***************************************************************************)
EXTENDS Integers, Sequences, FiniteSets, TLC

(***************************************************************************)
(* Bounds of the model.                                                    *)
(***************************************************************************)
MaxIssues == 2          \* issues matched by the predicate: 0 .. MaxIssues
MaxAtt == 2             \* attachments per issue: 0 .. MaxAtt
MaxSize == 2            \* declared attachment sizes: 1 .. MaxSize
MaxContent == 2         \* distinct byte contents served by the remote
MaxBatch == 2           \* scan.batch_size: 1 .. MaxBatch
MaxInterval == 2        \* storage.checkpoint_interval: 1 .. MaxInterval
MaxResumes == 2         \* scan(resume=True, ...) invocations per scan id
MaxDisturb == 1         \* interrupts, kills and raised errors per scan id
MaxSightings == 22      \* attachments folded by the catalog specification
MaxFailures == 1        \* attachments of a stream whose download fails
MaxScans == 3           \* scans started in one store
SecondsPerDay == 1      \* seconds in a day, for the age of a scan
MaxDays == 2            \* days by which the wall clock advances
MaxPagedIssues == 4     \* issues of the streams read with short pages
MaxGroups == 4          \* fingerprints of the catalogs given to quick wins
MaxRare == 2            \* sightings of each fingerprint but the first one
NumThreads == 2         \* threads calling wait_if_needed
MaxCalls == 2           \* calls of wait_if_needed per thread
MaxClassified == 3      \* attachments classified by the statistics specification
MaxProjects == 2        \* project keys of the classified attachments
MaxRows == 3            \* rows of the store written by single operations
MaxDateFrom == 2        \* filters.date_from: 1 .. MaxDateFrom
MaxRequests == 2        \* calls of a method of the client per thread
MaxTime == 4            \* ticks by which the clock advances
TicksPerInterval == 2   \* ticks in min_interval = 1 / max_requests_per_second
Rate == 2               \* max_requests_per_second

(***************************************************************************)
(* Program constants.                                                      *)
(***************************************************************************)
LocationCap == 20       \* "Store location (limit to 20)"
QuickWinsLimit == 3     \* "return quick_wins[:3]"
max_retries == 3        \* HTTPAdapter(max_retries=3)

VARIABLES
    stream,                  \* remote: the ordered issues matching the JQL
    batch_size,              \* AttachmentScanner.batch_size
    checkpoint_interval,     \* AttachmentScanner.checkpoint_interval
    max_file_size,           \* DownloadManager.max_file_size
    use_content_hash,        \* DownloadManager.use_content_hash
    pc,                      \* position of the driver inside scan()
    ret,                     \* which call of _save_progress is running
    step,                    \* next storage write of _save_progress (1..4)
    scan_state,              \* scan(): scan_state dict
    start_at,                \* scan(): start_at
    issues_since_checkpoint, \* scan(): issues_since_checkpoint
    issues,                  \* scan(): the page being processed
    idx,                     \* scan(): issues of the page already processed
    duplicate_groups,        \* scan(): fingerprint -> group
    scan_stats,              \* scan(): statistics dict
    db_scans,                \* table scans: scan_id -> row
    db_stats,                \* table scan_stats: scan_id -> row
    db_groups,               \* table duplicate_groups: (scan_id, hash) -> row
    db_ckpt,                 \* table checkpoints: scan_id -> row
    folded,                  \* history: page offsets folded into the catalog
    db_folded,               \* history: folded, as of a scan's stored groups
    committed,               \* history: store after the last complete save
    h,                       \* history: what has happened to the scan
    seen,                    \* history: sightings folded, per fingerprint
    finish_order,            \* executor: order in which the workers finish
    downloads,               \* history: download requests of the last batch
    quick_wins,              \* _finalize_scan: quick_wins of the results
    now,                     \* time.time(), in ticks
    last_request_time,       \* RateLimiter.last_request_time
    tpc,                     \* per thread: position in wait_if_needed
    current_time,            \* per thread: wait_if_needed's current_time
    time_since_last,         \* per thread: wait_if_needed's time_since_last
    admitted,                \* history: times at which wait_if_needed returned
    client,                  \* per thread: its call of the Jira client
    tasks,                   \* executor: attachment id -> state of its task
    joined                   \* download_and_hash_batch: futures waited for

vars == <<stream, batch_size, checkpoint_interval, max_file_size,
          use_content_hash, pc, ret, step, scan_state, start_at, issues_since_checkpoint, issues, idx,
          duplicate_groups, scan_stats, db_scans, db_stats, db_groups,
          db_ckpt, folded, db_folded, committed, h, seen, finish_order,
          downloads, quick_wins, now,
          last_request_time, tpc, current_time, time_since_last, admitted,
          client, tasks, joined>>

rlVars == <<now, last_request_time, tpc, current_time, time_since_last,
            admitted>>
poolVars == <<tasks, joined>>
envVars == <<stream, batch_size, checkpoint_interval, max_file_size,
             use_content_hash, seen, finish_order, rlVars, client, poolVars>>
memVars == <<scan_state, start_at, issues_since_checkpoint, issues, idx,
             duplicate_groups, scan_stats, folded, downloads,
             quick_wins>>
dbVars == <<db_scans, db_stats, db_groups, db_ckpt, db_folded, committed>>

EmptyMap == [x \in {} |-> x]

\* INSERT OR REPLACE of the row with primary key k
Put(table, k, row) ==
    [x \in DOMAIN table \cup {k} |-> IF x = k THEN row ELSE table[x]]

Min(a, b) == IF a < b THEN a ELSE b

(***************************************************************************)
(* StreamingHasher.  SHA-256 is modelled as an injection: the digest of a  *)
(* byte stream and the digest of a URL string are tagged values, equal     *)
(* exactly when their inputs are equal.                                    *)
(***************************************************************************)
hash_from_stream(content) == <<"bytes", content>>
hash_from_url(url) == <<"url", url>>

(***************************************************************************)
(* DownloadManager.  An attachment is the remote's metadata record         *)
(* [id, filename, size, content (its URL), bytes, dl]: bytes is what the   *)
(* remote serves for the URL and dl is how the transfer ends ("ok", or a   *)
(* failure: "truncated", "timeout", "error").                              *)
(***************************************************************************)
DownloadOutcomes == {"ok", "truncated", "timeout", "error"}

\* a worker that gives up on a failed download: no fallback, no result
_download_and_hash_singleNoFallback(attachment) ==
    IF attachment.size > max_file_size
    THEN <<attachment.id, hash_from_url(attachment.content), attachment>>
    ELSE IF use_content_hash /\ attachment.dl # "ok"
         THEN <<>>
         ELSE IF use_content_hash
              THEN <<attachment.id, hash_from_stream(attachment.bytes),
                     attachment>>
              ELSE <<attachment.id, hash_from_url(attachment.content),
                     attachment>>

\* _download_and_hash_single: the fingerprint of one attachment
_download_and_hash_single(attachment) ==
    IF attachment.size > max_file_size
    THEN <<attachment.id, hash_from_url(attachment.content), attachment>>
    ELSE IF use_content_hash /\ attachment.dl = "ok"
         THEN <<attachment.id, hash_from_stream(attachment.bytes), attachment>>
         ELSE <<attachment.id, hash_from_url(attachment.content), attachment>>

\* a worker that requests the download before it looks at the size
DownloadRequestsBeforeSizeCheck(attachment) ==
    IF use_content_hash THEN 1 ELSE 0

\* number of download requests _download_and_hash_single sends
DownloadRequests(attachment) ==
    IF attachment.size > max_file_size \/ ~use_content_hash THEN 0 ELSE 1

\* the futures of a batch, in the order of executor.submit (lines 713-718)
Futures(attachments) ==
    [i \in 1..Len(attachments) |-> _download_and_hash_single(attachments[i])]

\* the indices of a batch of n, in the order in which its workers finish
FinishOrder(n) == SelectSeq(finish_order, LAMBDA k : k <= n)

\* results gathered as the workers finish (concurrent.futures.as_completed)
download_and_hash_batchAsCompleted(attachments) ==
    LET fs == Futures(attachments)
    IN [k \in 1..Len(fs) |-> fs[FinishOrder(Len(fs))[k]]]

\* download_and_hash_batch: future.result() for each future of the list,
\* in the order of the list; a result of None (here <<>>) is dropped
download_and_hash_batch(attachments) ==
    SelectSeq(Futures(attachments), LAMBDA result : result # <<>>)

(***************************************************************************)
(* AttachmentScanner: statistics and classification.                       *)
(***************************************************************************)
_initialize_stats ==
    [total_files |-> 0, total_size |-> 0, canonical_files |-> 0,
     duplicate_files |-> 0, duplicate_size |-> 0,
     project_stats |-> EmptyMap, file_type_stats |-> EmptyMap]

\* str.lower on the characters of the model's file names
Lower(c) == IF c = "B" THEN "b" ELSE c

\* _get_file_extension: the lowercased text after the last dot
_get_file_extension(file_name) ==
    IF \E i \in 1..Len(file_name) : file_name[i] = "."
    THEN LET last == CHOOSE i \in 1..Len(file_name) :
                        /\ file_name[i] = "."
                        /\ \A j \in (i+1)..Len(file_name) : file_name[j] # "."
         IN [k \in 1..(Len(file_name) - last) |-> Lower(file_name[last + k])]
    ELSE <<"no-extension">>

\* a cap that is off by one: a location is still added at LocationCap
AppendLocationOffByOne(locations, location) ==
    IF Len(locations) <= LocationCap THEN Append(locations, location)
    ELSE locations

\* the locations list after a further sighting of a known fingerprint
AppendLocation(locations, location) ==
    IF Len(locations) < LocationCap THEN Append(locations, location)
    ELSE locations

\* the group of a fingerprint after a further sighting of size file_size
DuplicateSighting(group, file_size, location) ==
    [group EXCEPT !.duplicate_count = @ + 1,
                  !.total_wasted_space = @ + file_size,
                  !.locations = AppendLocation(@, location)]

\* the group created by the first sighting of a fingerprint
CanonicalGroup(attachment, issue) ==
    [file_name |-> attachment.filename,
     file_size |-> attachment.size,
     canonical_issue_key |-> issue.key,
     canonical_attachment_id |-> attachment.id,
     duplicate_count |-> 0,
     total_wasted_space |-> 0,
     locations |-> <<[issue_key |-> issue.key,
                      project_key |-> issue.project_key,
                      attachment_id |-> attachment.id,
                      is_canonical |-> TRUE]>>]

\* the per-project counters after one attachment; dup: the fingerprint's
\* group has duplicate_count > 0 after the merge
ProjectStatsAfter(project_stats, project_key, file_size, dup) ==
    LET old == IF project_key \in DOMAIN project_stats
               THEN project_stats[project_key]
               ELSE [total_size |-> 0, duplicate_size |-> 0,
                     file_count |-> 0, duplicate_count |-> 0]
        new == [total_size |-> old.total_size + file_size,
                file_count |-> old.file_count + 1,
                duplicate_size |-> old.duplicate_size
                                   + (IF dup THEN file_size ELSE 0),
                duplicate_count |-> old.duplicate_count
                                    + (IF dup THEN 1 ELSE 0)]
    IN [p \in DOMAIN project_stats \cup {project_key} |->
           IF p = project_key THEN new ELSE project_stats[p]]

\* the per-extension counters after one attachment
FileTypeStatsAfter(file_type_stats, file_extension, file_size) ==
    LET old == IF file_extension \in DOMAIN file_type_stats
               THEN file_type_stats[file_extension]
               ELSE [total_size |-> 0, count |-> 0]
        new == [total_size |-> old.total_size + file_size,
                count |-> old.count + 1]
    IN [e \in DOMAIN file_type_stats \cup {file_extension} |->
           IF e = file_extension THEN new ELSE file_type_stats[e]]

\* a test that counts every attachment as a duplicate of its project
CountsForProjectAlways(groups, file_hash) == file_hash \in DOMAIN groups

\* if file_hash in duplicate_groups and
\*    duplicate_groups[file_hash]['duplicate_count'] > 0
CountsForProject(groups, file_hash) ==
    file_hash \in DOMAIN groups /\ groups[file_hash].duplicate_count > 0

\* _process_attachment_result: catalog and statistics after one result
_process_attachment_result(attachment, file_hash, issue, groups, stats) ==
    LET file_size == attachment.size
        known == file_hash \in DOMAIN groups
        location == [issue_key |-> issue.key,
                     project_key |-> issue.project_key,
                     attachment_id |-> attachment.id,
                     is_canonical |-> FALSE]
        group == IF known
                 THEN DuplicateSighting(groups[file_hash], file_size, location)
                 ELSE CanonicalGroup(attachment, issue)
        groups2 == [f \in DOMAIN groups \cup {file_hash} |->
                       IF f = file_hash THEN group ELSE groups[f]]
        stats2 == [stats EXCEPT
                     !.duplicate_files = IF known THEN @ + 1 ELSE @,
                     !.duplicate_size = IF known THEN @ + file_size ELSE @,
                     !.canonical_files = IF known THEN @ ELSE @ + 1,
                     !.total_files = @ + 1,
                     !.total_size = @ + file_size,
                     !.project_stats =
                         ProjectStatsAfter(@, issue.project_key, file_size,
                                           CountsForProject(groups2,
                                                            file_hash)),
                     !.file_type_stats =
                         FileTypeStatsAfter(@,
                             _get_file_extension(attachment.filename),
                             file_size)]
    IN [groups |-> groups2, stats |-> stats2]

\* the loop over the results of one batch (_process_issue, lines 1138-1151)
RECURSIVE MergeResults(_, _, _, _)
MergeResults(results, issue, groups, stats) ==
    IF results = <<>> THEN [groups |-> groups, stats |-> stats]
    ELSE LET r == _process_attachment_result(results[1][3], results[1][2],
                                             issue, groups, stats)
         IN MergeResults(Tail(results), issue, r.groups, r.stats)

\* the download requests sent while the batch of the issue is processed
RequestsOf(issue) ==
    [id \in {issue.attachment[j].id : j \in 1..Len(issue.attachment)} |->
        LET a == CHOOSE a \in {issue.attachment[j] :
                                  j \in 1..Len(issue.attachment)} : a.id = id
        IN DownloadRequests(a)]

\* _process_issue: download the attachments of the issue, merge the results
_process_issue(issue, groups, stats) ==
    IF issue.attachment = <<>> THEN [groups |-> groups, stats |-> stats]
    ELSE MergeResults(download_and_hash_batch(issue.attachment), issue,
                      groups, stats)

(***************************************************************************)
(* The remote.  The predicate matches the issues of stream, in the order   *)
(* of its ORDER BY clause; issue i has key i, attachment j of issue i has  *)
(* id 10*i + j and is served at the URL of that id.                        *)
(***************************************************************************)
AttShapes == [size : 1..MaxSize, bytes : 1..MaxContent]

IssueShapes == UNION {[1..n -> AttShapes] : n \in 0..MaxAtt}

MkAttachment(i, j, shape) ==
    [id |-> 10 * i + j, filename |-> <<"a", ".", "B">>, size |-> shape.size,
     content |-> 10 * i + j, bytes |-> shape.bytes,
     dl |-> IF "dl" \in DOMAIN shape THEN shape.dl ELSE "ok"]

MkIssue(i, shapes) ==
    [key |-> i, project_key |-> 1,
     attachment |-> [j \in 1..Len(shapes) |-> MkAttachment(i, j, shapes[j])]]

\* the byte contents of the attachments of a stream, in stream order
RECURSIVE BytesOf(_)
BytesOf(shapes) ==
    IF shapes = <<>> THEN <<>>
    ELSE [j \in 1..Len(shapes[1]) |-> shapes[1][j].bytes] \o BytesOf(Tail(shapes))

\* contents are numbered in the order of their first appearance (the
\* digests are an injection, so a renaming of contents changes nothing)
FirstAppearance(bs) ==
    \A k \in 1..Len(bs) :
        bs[k] = 1 \/ \E l \in 1..(k - 1) : bs[l] = bs[k] - 1

Streams ==
    UNION {{[i \in 1..n |-> MkIssue(i, s[i])] :
              s \in {t \in [1..n -> IssueShapes] : FirstAppearance(BytesOf(t))}} :
           n \in 0..MaxIssues}

\* the error statuses the remote answers with
HttpErrors == {401, 403, 429, 500}

\* _make_request: the response, or the message of the Exception it raises
\* for the status of the HTTPError
_make_request(status) ==
    CASE status = 401 -> "Authentication failed. Check your credentials."
      [] status = 403 -> "Permission denied. Check API token permissions."
      [] status = 429 -> "Rate limit exceeded. Please wait and try again."
      [] status >= 400 -> "API error"
      [] OTHER -> "response"

\* config['filters']: the date from which issues are scanned; issue keys
\* grow with the date of creation, and every issue is created on day 1 or
\* later
Filters == [date_from : 1..MaxDateFrom]

\* the filters of the configuration file as it is first written
DefaultFilters == [date_from |-> 1]

\* build_jql_query: the JQL text of the configured filters
build_jql_query(filters) ==
    <<"created >=", filters.date_from, "ORDER BY created DESC">>

\* remote: the issues of the stream that a JQL text selects
Matching(jql) == SelectSeq(stream, LAMBDA issue : issue.key >= jql[2])

\* get_total_issue_count: the total of a search with maxResults = 0
get_total_issue_count(jql) == Len(Matching(jql))

\* search_issues: the page of at most max_results issues from offset start
\* of the issues selected by jql, the local of scan() that is also kept in
\* scan_state['jql_query']
search_issues(start, max_results) ==
    LET matching == Matching(scan_state.jql_query)
    IN SubSeq(matching, start + 1, Min(start + max_results, Len(matching)))

(***************************************************************************)
(* The driver: AttachmentScanner.scan.                                     *)
(***************************************************************************)
ScanId == 1     \* the scan id drawn by _initialize_scan

Threads == 1..NumThreads

\* RateLimiter.__init__: min_interval = 1.0 / max_requests_per_second, and
\* one second, both in ticks
min_interval == TicksPerInterval
OneSecond == Rate * TicksPerInterval

\* one day, in ticks
OneDay == SecondsPerDay * OneSecond

\* the characters '+' and '.' of a time stamp, by their code points
Plus == 43
Dot == 46

\* datetime.isoformat() of a time in UTC: the whole seconds in fixed width,
\* the fraction only when it is not zero, then the offset "+00:00"
isoformat(t) ==
    <<t \div OneSecond>>
    \o (IF t % OneSecond = 0 THEN <<>> ELSE <<Dot, t % OneSecond>>)
    \o <<Plus>>

\* SQLite's comparison of two TEXT values (memcmp): a < b
RECURSIVE TextLess(_, _)
TextLess(a, b) ==
    IF b = <<>> THEN FALSE
    ELSE IF a = <<>> THEN TRUE
    ELSE IF Head(a) # Head(b) THEN Head(a) < Head(b)
    ELSE TextLess(Tail(a), Tail(b))

\* Python's None, and SQL's NULL
None == <<>>

NoState == [scan_id |-> 0, status |-> "none", total_issues |-> 0,
            processed_issues |-> 0, last_start_at |-> 0,
            completion_time |-> None, jql_query |-> None]

NoHistory == [resumes |-> 0, intrs |-> 0, boundary |-> TRUE,
              faults |-> 0, fetch_failed |-> FALSE, raised |-> "none",
              http |-> 0, scans |-> 0, returned |-> 0, short |-> FALSE,
              jql |-> None]

\* the environment may still disturb the scan
MayDisturb == h.intrs + h.faults < MaxDisturb

\* the scans row written by save_scan_state
ScanRow(state) ==
    [status |-> state.status, total_issues |-> state.total_issues,
     processed_issues |-> state.processed_issues,
     completion_time |-> state.completion_time,
     jql_query |-> state.jql_query]

\* the process has ended: nothing of its memory is left
MemoryGone ==
    /\ scan_state' = NoState
    /\ start_at' = 0
    /\ issues_since_checkpoint' = 0
    /\ issues' = <<>>
    /\ idx' = 0
    /\ duplicate_groups' = EmptyMap
    /\ scan_stats' = _initialize_stats
    /\ folded' = {}
    /\ downloads' = EmptyMap
    /\ quick_wins' = <<>>

Exit == pc' = "idle" /\ ret' = "none" /\ step' = 0 /\ MemoryGone

\* a thread that is not inside a method of the client
NoCall == [pos |-> "idle", kind |-> "none", calls |-> 0, attempts |-> 0,
           first |-> <<>>, result |-> "none"]

\* nothing has been requested, no thread is inside wait_if_needed
InitRateLimiter ==
    /\ now = min_interval
    /\ last_request_time = 0
    /\ tpc = [t \in Threads |-> "out"]
    /\ current_time = [t \in Threads |-> 0]
    /\ time_since_last = [t \in Threads |-> 0]
    /\ admitted = <<>>
    /\ client = [t \in Threads |-> NoCall]
    /\ tasks = EmptyMap /\ joined = 0

\* DownloadManager.__init__ with the defaults: no attachment is over the
\* size limit and contents are hashed
InitDownloadManager ==
    /\ max_file_size = MaxSize
    /\ use_content_hash = TRUE

\* no scan has been started and the store is empty
InitScanner ==
    /\ pc = "idle" /\ ret = "none" /\ step = 0
    /\ scan_state = NoState
    /\ start_at = 0 /\ issues_since_checkpoint = 0
    /\ issues = <<>> /\ idx = 0
    /\ duplicate_groups = EmptyMap
    /\ scan_stats = _initialize_stats
    /\ db_scans = EmptyMap /\ db_stats = EmptyMap /\ db_groups = EmptyMap
    /\ db_ckpt = EmptyMap
    /\ folded = {} /\ db_folded = EmptyMap
    /\ committed = <<EmptyMap, EmptyMap, EmptyMap, EmptyMap>>
    /\ h = NoHistory
    /\ seen = EmptyMap
    /\ downloads = EmptyMap
    /\ quick_wins = <<>>

Init ==
    /\ stream \in Streams
    /\ finish_order \in Permutations(1..MaxAtt)
    /\ batch_size \in 1..MaxBatch
    /\ checkpoint_interval \in 1..MaxInterval
    /\ InitDownloadManager
    /\ InitScanner
    /\ InitRateLimiter

\* scan() without resume, in a new process: _initialize_scan draws the
\* scan id, counts the issues and saves the scan record
InitializeScan(scan_id, jql) ==
    /\ pc \in {"idle", "done"}
    /\ scan_state' = [scan_id |-> scan_id, status |-> "running",
                      total_issues |-> get_total_issue_count(jql),
                      processed_issues |-> 0, last_start_at |-> 0,
                      completion_time |-> None, jql_query |-> jql]
    /\ duplicate_groups' = EmptyMap
    /\ scan_stats' = _initialize_stats
    /\ db_scans' = Put(db_scans, scan_id, ScanRow(scan_state'))
    /\ committed' = <<db_scans', db_stats, db_groups, db_ckpt>>
    /\ start_at' = 0 /\ issues_since_checkpoint' = 0
    /\ issues' = <<>> /\ idx' = 0
    /\ folded' = {} /\ downloads' = EmptyMap
    /\ quick_wins' = <<>>
    /\ pc' = "loop" /\ ret' = "none" /\ step' = 0
    /\ h' = [h EXCEPT !.scans = @ + 1, !.fetch_failed = FALSE,
                      !.raised = "none", !.http = 0, !.jql = jql]
    /\ UNCHANGED <<envVars, db_stats, db_groups, db_ckpt, db_folded>>

\* scan() of a process whose configuration file is as first written
_initialize_scan(scan_id) ==
    InitializeScan(scan_id, build_jql_query(DefaultFilters))

\* the first scan of an empty store
StartScan ==
    /\ pc = "idle" /\ ScanId \notin DOMAIN db_scans /\ h.scans = 0
    /\ _initialize_scan(ScanId)

(***************************************************************************)
(* The rows of the store.  A dict is written as JSON text, an object that  *)
(* is the set of its items, and read back from the items; a list is        *)
(* written as an array, its length followed by its elements.               *)
(***************************************************************************)
\* json.dumps of a dict: its items, each key once
json_dumps(dict) == {<<k, dict[k]>> : k \in DOMAIN dict}

\* json.loads of the text of a dict: the value of each key of the object
json_loads(text) ==
    [k \in {item[1] : item \in text} |->
        (CHOOSE item \in text : item[1] = k)[2]]

\* json.dumps of a dict of dicts (project_stats, file_type_stats)
DumpsNested(table) ==
    json_dumps([k \in DOMAIN table |-> json_dumps(table[k])])

\* json.loads of the text of a dict of dicts
LoadsNested(text) ==
    LET outer == json_loads(text)
    IN [k \in DOMAIN outer |-> json_loads(outer[k])]

\* json.dumps of a list (locations)
DumpsList(list) == <<Len(list)>> \o list

\* json.loads of the text of a list
LoadsList(text) == SubSeq(text, 2, text[1] + 1)

\* the scan_stats row written by save_scan_stats
StatsRow(stats) ==
    [total_files |-> stats.total_files, total_size |-> stats.total_size,
     canonical_files |-> stats.canonical_files,
     duplicate_files |-> stats.duplicate_files,
     duplicate_size |-> stats.duplicate_size,
     project_stats_json |-> DumpsNested(stats.project_stats),
     file_type_stats_json |-> DumpsNested(stats.file_type_stats)]

\* the statistics _resume_scan builds from the scan_stats row
StatsOfRow(stats_row) ==
    [total_files |-> stats_row.total_files,
     total_size |-> stats_row.total_size,
     canonical_files |-> stats_row.canonical_files,
     duplicate_files |-> stats_row.duplicate_files,
     duplicate_size |-> stats_row.duplicate_size,
     project_stats |-> LoadsNested(stats_row.project_stats_json),
     file_type_stats |-> LoadsNested(stats_row.file_type_stats_json)]

\* the duplicate_groups row written by save_duplicate_groups
GroupRow(group) ==
    [file_name |-> group.file_name, file_size |-> group.file_size,
     canonical_issue_key |-> group.canonical_issue_key,
     canonical_attachment_id |-> group.canonical_attachment_id,
     duplicate_count |-> group.duplicate_count,
     total_wasted_space |-> group.total_wasted_space,
     locations_json |-> DumpsList(group.locations)]

\* a group that is read back without its locations
GroupOfRowNoLocations(row) ==
    [file_name |-> row.file_name, file_size |-> row.file_size,
     canonical_issue_key |-> row.canonical_issue_key,
     canonical_attachment_id |-> row.canonical_attachment_id,
     duplicate_count |-> row.duplicate_count,
     total_wasted_space |-> row.total_wasted_space,
     locations |-> <<>>]

\* the group get_duplicate_groups builds from a duplicate_groups row
GroupOfRow(row) ==
    [file_name |-> row.file_name, file_size |-> row.file_size,
     canonical_issue_key |-> row.canonical_issue_key,
     canonical_attachment_id |-> row.canonical_attachment_id,
     duplicate_count |-> row.duplicate_count,
     total_wasted_space |-> row.total_wasted_space,
     locations |-> LoadsList(row.locations_json)]

\* load_checkpoint: the checkpoint row of the scan, if there is one
load_checkpoint(scan_id) ==
    IF scan_id \in DOMAIN db_ckpt THEN <<db_ckpt[scan_id]>> ELSE <<>>

\* get_duplicate_groups: the stored groups of the scan, by fingerprint
get_duplicate_groups(scan_id) ==
    [f \in {k[2] : k \in {x \in DOMAIN db_groups : x[1] = scan_id}} |->
        GroupOfRow(db_groups[<<scan_id, f>>])]

\* _resume_scan: scan state, groups and statistics as stored, with the JQL
\* text that scan() has built from the configuration
_resume_scan(scan_id, jql) ==
    LET row == db_scans[scan_id]
        checkpoint == load_checkpoint(scan_id)
        last_start_at == IF checkpoint # <<>> THEN checkpoint[1].last_start_at
                         ELSE row.processed_issues
    IN [scan_state |-> [scan_id |-> scan_id, status |-> "running",
                        total_issues |-> row.total_issues,
                        processed_issues |-> row.processed_issues,
                        last_start_at |-> last_start_at,
                        completion_time |-> None, jql_query |-> jql],
        duplicate_groups |-> get_duplicate_groups(scan_id),
        scan_stats |-> IF scan_id \in DOMAIN db_stats
                       THEN StatsOfRow(db_stats[scan_id])
                       ELSE _initialize_stats]

\* scan(resume=True, scan_id): _resume_scan loads the stored scan
ResumeWith(scan_id, jql) ==
    /\ pc \in {"idle", "done"} /\ scan_id \in DOMAIN db_scans
    /\ h.resumes < MaxResumes
    /\ LET r == _resume_scan(scan_id, jql)
       IN /\ scan_state' = r.scan_state
          /\ duplicate_groups' = r.duplicate_groups
          /\ scan_stats' = r.scan_stats
          /\ start_at' = r.scan_state.last_start_at
    /\ folded' = IF scan_id \in DOMAIN db_folded THEN db_folded[scan_id]
                 ELSE {}
    /\ issues_since_checkpoint' = 0
    /\ issues' = <<>> /\ idx' = 0
    /\ downloads' = EmptyMap
    /\ quick_wins' = <<>>
    /\ pc' = "loop" /\ ret' = "none" /\ step' = 0
    /\ h' = [h EXCEPT !.resumes = @ + 1, !.fetch_failed = FALSE,
                      !.raised = "none", !.http = 0]
    /\ UNCHANGED <<envVars, dbVars>>

\* scan(resume=True, scan_id) of a process whose configuration file is as
\* first written
ScanResume(scan_id) == ResumeWith(scan_id, build_jql_query(DefaultFilters))

\* the scan of the store is resumed
ResumeScan == ScanResume(ScanId)

(***************************************************************************)
(* _calculate_quick_wins.  A dict is iterated in the order in which its    *)
(* keys were inserted, of which the catalog of the model keeps no record:  *)
(* order is that sequence of the fingerprints.                             *)
(***************************************************************************)
\* the sequences that hold every element of S once
Orders(S) ==
    {q \in [1..Cardinality(S) -> S] :
        \A i, j \in 1..Cardinality(S) : i # j => q[i] # q[j]}

\* the entries appended by the loop: the groups with duplicate_count > 0
QuickWinEntries(groups, order) ==
    LET wins == SelectSeq(order, LAMBDA f : groups[f].duplicate_count > 0)
    IN [i \in 1..Len(wins) |->
           [hash |-> wins[i],
            file_name |-> groups[wins[i]].file_name,
            file_size |-> groups[wins[i]].file_size,
            duplicate_count |-> groups[wins[i]].duplicate_count,
            total_wasted_space |-> groups[wins[i]].total_wasted_space]]

\* list.sort(key=total_wasted_space, reverse=True): the highest first,
\* entries of equal key in the order they had (the sort is stable)
SortByWastedSpace(list) ==
    LET p == CHOOSE p \in Orders(1..Len(list)) :
                \A i, j \in 1..Len(list) :
                   i < j =>
                      \/ list[p[i]].total_wasted_space
                            > list[p[j]].total_wasted_space
                      \/ /\ list[p[i]].total_wasted_space
                              = list[p[j]].total_wasted_space
                         /\ p[i] < p[j]
    IN [i \in 1..Len(list) |-> list[p[i]]]

\* a slice that keeps one entry more
TopFour(list) == SubSeq(list, 1, Min(QuickWinsLimit + 1, Len(list)))

\* quick_wins[:3]
TopThree(list) == SubSeq(list, 1, Min(QuickWinsLimit, Len(list)))

_calculate_quick_wins(groups, order) ==
    TopThree(SortByWastedSpace(QuickWinEntries(groups, order)))

\* the loop is left: _finalize_scan marks the scan completed and saves
Finalize ==
    /\ scan_state' = [scan_state EXCEPT !.status = "completed",
                                        !.completion_time = isoformat(now)]
    /\ \E order \in Orders(DOMAIN duplicate_groups) :
          quick_wins' = _calculate_quick_wins(duplicate_groups, order)
    /\ pc' = "save" /\ ret' = "final" /\ step' = 1
    /\ UNCHANGED <<envVars, start_at, issues_since_checkpoint, issues, idx,
                   duplicate_groups, scan_stats, folded, downloads, dbVars>>

\* a loop that runs its body once more, when start_at = total_issues
WhileConditionInclusive == start_at <= scan_state.total_issues

\* while start_at < total_issues
WhileCondition == start_at < scan_state.total_issues

\* while start_at < total_issues: false
LoopExit ==
    /\ pc = "loop" /\ ~WhileCondition
    /\ Finalize
    /\ UNCHANGED h

\* search_issues returns a page; an empty page breaks the loop
FetchPage ==
    /\ pc = "loop" /\ WhileCondition
    /\ LET page == search_issues(start_at, batch_size)
       IN IF page = <<>>
          THEN Finalize
          ELSE /\ issues' = page /\ idx' = 0
               /\ pc' = "issues"
               /\ UNCHANGED <<envVars, ret, step, scan_state, start_at,
                              issues_since_checkpoint, duplicate_groups,
                              scan_stats, folded, downloads,
                   quick_wins, dbVars>>
    /\ UNCHANGED h

\* search_issues raises: "Failed to fetch batch", break
FetchFails ==
    /\ pc = "loop" /\ WhileCondition
    /\ MayDisturb
    /\ Finalize
    /\ \E status \in HttpErrors :
          /\ _make_request(status) # "response"
          /\ h' = [h EXCEPT !.faults = @ + 1, !.fetch_failed = TRUE,
                            !.http = status]

\* for issue in issues: _process_issue
ProcessIssue ==
    /\ pc = "issues" /\ idx < Len(issues)
    /\ LET r == _process_issue(issues[idx + 1], duplicate_groups, scan_stats)
       IN /\ duplicate_groups' = r.groups
          /\ scan_stats' = r.stats
    /\ downloads' = RequestsOf(issues[idx + 1])
    /\ idx' = idx + 1
    /\ UNCHANGED <<envVars, pc, ret, step, scan_state, start_at,
                   issues_since_checkpoint, issues, folded, quick_wins,
                   dbVars, h>>

\* an offset that does not advance
NextOffsetStuck == start_at

\* an offset that advances by the length of the page
NextOffsetByPageLength == start_at + Len(issues)

\* start_at += self.batch_size
NextOffset == start_at + batch_size

\* a checkpoint that is due only when the counter is over the interval
CheckpointDueOverInterval(n) == n > checkpoint_interval

\* if issues_since_checkpoint >= self.checkpoint_interval
CheckpointDue(n) == n >= checkpoint_interval

\* lines 970-989: update progress, checkpoint when due, next batch
PageDone ==
    /\ pc = "issues" /\ idx = Len(issues)
    /\ scan_state' = [scan_state EXCEPT
                        !.processed_issues = @ + Len(issues),
                        !.last_start_at = start_at]
    /\ folded' = folded \cup {start_at}
    /\ IF CheckpointDue(issues_since_checkpoint + Len(issues))
       THEN /\ issues_since_checkpoint' =
                   issues_since_checkpoint + Len(issues)
            /\ pc' = "save" /\ ret' = "ckpt" /\ step' = 1
            /\ UNCHANGED start_at
       ELSE /\ issues_since_checkpoint' =
                   issues_since_checkpoint + Len(issues)
            /\ start_at' = NextOffset
            /\ pc' = "loop"
            /\ UNCHANGED <<ret, step>>
    /\ UNCHANGED <<envVars, issues, idx, duplicate_groups, scan_stats,
                   downloads, quick_wins, dbVars, h>>

(***************************************************************************)
(* _save_progress: four storage writes, each committed on its own          *)
(* (save_scan_state, save_scan_stats, save_duplicate_groups and            *)
(* save_checkpoint each end with conn.commit()).                           *)
(***************************************************************************)
\* INSERT OR REPLACE INTO duplicate_groups, one row per in-memory group
UpsertGroups(rows, scan_id, groups) ==
    [k \in DOMAIN rows \cup {<<scan_id, f>> : f \in DOMAIN groups} |->
        IF k[1] = scan_id /\ k[2] \in DOMAIN groups THEN GroupRow(groups[k[2]])
        ELSE rows[k]]

\* the checkpoints row written by save_checkpoint
CheckpointOffset(state) == state.last_start_at

\* '', the key of no issue
EmptyKey == 0

\* last_issue_key = scan_state.get('last_issue_key', ''); the row is
\* stamped with the time of the call
CheckpointRow(state) ==
    [last_issue_key |-> IF "last_issue_key" \in DOMAIN state
                        THEN state.last_issue_key ELSE EmptyKey,
     last_start_at |-> CheckpointOffset(state),
     checkpoint_time |-> isoformat(now)]

save_scan_state ==
    /\ pc = "save" /\ step = 1
    /\ db_scans' = Put(db_scans, scan_state.scan_id, ScanRow(scan_state))
    /\ step' = 2
    /\ UNCHANGED <<envVars, memVars, pc, ret, db_stats, db_groups, db_ckpt,
                   db_folded, committed, h>>

save_scan_stats ==
    /\ pc = "save" /\ step = 2
    /\ db_stats' = Put(db_stats, scan_state.scan_id, StatsRow(scan_stats))
    /\ step' = 3
    /\ UNCHANGED <<envVars, memVars, pc, ret, db_scans, db_groups, db_ckpt,
                   db_folded, committed, h>>

save_duplicate_groups ==
    /\ pc = "save" /\ step = 3
    /\ db_groups' = UpsertGroups(db_groups, scan_state.scan_id,
                                 duplicate_groups)
    /\ db_folded' = Put(db_folded, scan_state.scan_id, folded)
    /\ step' = 4
    /\ UNCHANGED <<envVars, memVars, pc, ret, db_scans, db_stats, db_ckpt,
                   committed, h>>

\* the last write of _save_progress, and what scan() does when it returns
save_checkpoint ==
    /\ pc = "save" /\ step = 4
    /\ db_ckpt' = Put(db_ckpt, scan_state.scan_id, CheckpointRow(scan_state))
    /\ committed' = <<db_scans, db_stats, db_groups, db_ckpt'>>
    /\ UNCHANGED <<envVars, db_scans, db_stats, db_groups, db_folded>>
    /\ h' = IF ret \in {"ckpt", "final"} THEN h
            ELSE [h EXCEPT !.raised = IF ret = "interrupt"
                                      THEN "KeyboardInterrupt"
                                      ELSE "Exception"]
    /\ CASE ret = "ckpt" ->
              \* lines 986-989: reset the counter, move to the next batch
              /\ issues_since_checkpoint' = 0
              /\ start_at' = NextOffset
              /\ pc' = "loop" /\ ret' = "none" /\ step' = 0
              /\ UNCHANGED <<scan_state, issues, idx, duplicate_groups,
                             scan_stats, folded, downloads, quick_wins>>
         [] ret = "final" ->
              \* _finalize_scan returns the results, scan() returns
              /\ pc' = "done" /\ ret' = "none" /\ step' = 0
              /\ UNCHANGED memVars
         [] OTHER ->
              \* the except blocks re-raise after saving
              Exit

\* a storage write raises (sqlite3 error) before it commits
StorageRaises ==
    /\ pc = "save"
    /\ MayDisturb
    /\ h' = [h EXCEPT !.faults = @ + 1,
                      !.raised = IF ret = "ckpt" THEN @ ELSE "sqlite3.Error"]
    /\ IF ret = "ckpt"
       THEN \* inside the try block: except Exception saves again
            /\ pc' = "save" /\ ret' = "error" /\ step' = 1
            /\ UNCHANGED <<envVars, memVars, dbVars>>
       ELSE /\ Exit
            /\ UNCHANGED <<envVars, dbVars>>

\* a KeyboardInterrupt that nothing catches: scan() exits without saving
InterruptNoSave ==
    /\ \/ pc \in {"loop", "issues", "batch", "merge"}
       \/ pc = "save" /\ ret = "ckpt"
    /\ MayDisturb
    /\ Exit
    /\ h' = [h EXCEPT !.intrs = @ + 1, !.raised = "KeyboardInterrupt"]
    /\ UNCHANGED <<envVars, dbVars>>

\* KeyboardInterrupt inside the try block: save the progress, re-raise
Interrupt ==
    /\ \/ pc \in {"loop", "issues", "batch", "merge"}
       \/ pc = "save" /\ ret = "ckpt"
    /\ MayDisturb
    /\ pc' = "save" /\ ret' = "interrupt" /\ step' = 1
    /\ h' = [h EXCEPT
               !.intrs = @ + 1,
               !.boundary = @ /\ pc = "loop" /\ issues_since_checkpoint = 0
                              /\ start_at = scan_state.last_start_at
                                            + batch_size]
    /\ UNCHANGED <<envVars, memVars, dbVars>>

\* an except block that marks the scan failed before it saves
ProcessRaisesFailed ==
    /\ pc = "issues" /\ idx < Len(issues)
    /\ MayDisturb
    /\ scan_state' = [scan_state EXCEPT !.status = "failed"]
    /\ pc' = "save" /\ ret' = "error" /\ step' = 1
    /\ h' = [h EXCEPT !.faults = @ + 1]
    /\ UNCHANGED <<envVars, start_at, issues_since_checkpoint, issues, idx,
                   duplicate_groups, scan_stats, folded, downloads,
                   quick_wins, dbVars>>

\* an exception inside _process_issue: except Exception saves and re-raises
ProcessRaises ==
    /\ pc = "issues" /\ idx < Len(issues)
    /\ MayDisturb
    /\ pc' = "save" /\ ret' = "error" /\ step' = 1
    /\ h' = [h EXCEPT !.faults = @ + 1]
    /\ UNCHANGED <<envVars, memVars, dbVars>>

\* the process ends where it stands: it is killed, or a KeyboardInterrupt
\* arrives inside an except block or inside _finalize_scan
Kill ==
    /\ pc \in {"loop", "issues", "save"}
    /\ MayDisturb
    /\ Exit
    /\ h' = [h EXCEPT !.faults = @ + 1, !.raised = "killed"]
    /\ UNCHANGED <<envVars, dbVars>>

Next ==
    \/ StartScan
    \/ ResumeScan
    \/ LoopExit
    \/ FetchPage
    \/ FetchFails
    \/ ProcessIssue
    \/ PageDone
    \/ save_scan_state
    \/ save_scan_stats
    \/ save_duplicate_groups
    \/ save_checkpoint
    \/ StorageRaises
    \/ Interrupt
    \/ ProcessRaises
    \/ Kill

Spec == Init /\ [][Next]_vars

(***************************************************************************)
(* Definitions used by the properties.                                     *)
(***************************************************************************)
\* the sum of the values of a function with a finite domain
RECURSIVE Sum(_)
Sum(f) ==
    IF DOMAIN f = {} THEN 0
    ELSE LET x == CHOOSE y \in DOMAIN f : TRUE
         IN f[x] + Sum([y \in DOMAIN f \ {x} |-> f[y]])

\* catalog and statistics of a scan of the whole stream that nothing
\* interrupts: every issue is processed once, in stream order
RECURSIVE FoldIssues(_, _, _)
FoldIssues(iss, groups, stats) ==
    IF iss = <<>> THEN [groups |-> groups, stats |-> stats]
    ELSE CHOOSE result \in
             {FoldIssues(Tail(iss), r.groups, r.stats) :
                 r \in {_process_issue(iss[1], groups, stats)}} : TRUE

Uninterrupted == FoldIssues(stream, EmptyMap, _initialize_stats)

\* the scan was interrupted once, right after a periodic checkpoint, was
\* resumed once, and has now returned its results
ResumedOnceAtCheckpoint ==
    /\ pc = "done"
    /\ h.intrs = 1 /\ h.boundary /\ h.faults = 0 /\ h.resumes = 1

\* C1: a scan interrupted once at a checkpoint boundary and resumed ends
\* with the statistics and the groups of the uninterrupted scan.
ResumeIdempotence ==
    ResumedOnceAtCheckpoint =>
        /\ scan_stats = Uninterrupted.stats
        /\ duplicate_groups = Uninterrupted.groups

\* C2: every checkpoint stores the offset of a page that is not yet folded
\* into the statistics and groups saved with it, and no page fetched by the
\* loop is one the loaded catalog already reflects.
CheckpointIsNextPage ==
    [][/\ save_checkpoint =>
             db_ckpt'[scan_state.scan_id].last_start_at \notin folded
       /\ (pc = "loop" /\ pc' = "issues") => start_at \notin folded]_vars

\* C3: processed_issues never decreases and never exceeds total_issues, in
\* memory and in the scans table.
ProcessedMonotonicBounded ==
    [][/\ scan_state'.processed_issues <= scan_state'.total_issues
       /\ \A id \in DOMAIN db_scans' :
             db_scans'[id].processed_issues <= db_scans'[id].total_issues
       /\ (pc # "idle" /\ pc' \notin {"idle", "loop"}) =>
             scan_state'.processed_issues >= scan_state.processed_issues
       /\ \A id \in DOMAIN db_scans :
             db_scans'[id].processed_issues >= db_scans[id].processed_issues
      ]_vars

\* C4: a run in which search_issues raised never finalizes the scan as
\* completed: its status stays 'running'.
FetchFailureKeepsRunning ==
    (h.fetch_failed /\ pc # "idle") =>
        /\ scan_state.status = "running"
        /\ pc # "done"

\* C5: whenever the process has ended, by a crash or a raised storage
\* error included, the four tables hold what the last completed
\* _save_progress (or the initial save) wrote.
SaveProgressAtomic ==
    pc = "idle" => <<db_scans, db_stats, db_groups, db_ckpt>> = committed

\* the three conservation equations on a catalog and its statistics
Conserved(groups, stats) ==
    /\ stats.total_files =
           Sum([f \in DOMAIN groups |-> 1 + groups[f].duplicate_count])
    /\ stats.duplicate_size =
           Sum([f \in DOMAIN groups |-> groups[f].total_wasted_space])
    /\ stats.canonical_files = Cardinality(DOMAIN groups)

\* C6: the statistics and the groups of the scan always satisfy the
\* conservation equations.
StatisticsConservation == Conserved(duplicate_groups, scan_stats)

\* C7: every group of a completed scan has
\* total_wasted_space = file_size * duplicate_count.
GroupArithmetic ==
    pc = "done" =>
        \A f \in DOMAIN duplicate_groups :
            duplicate_groups[f].total_wasted_space =
                duplicate_groups[f].file_size
                * duplicate_groups[f].duplicate_count

\* the attachments of the stream, each with the key of its issue
StreamAttachments ==
    {[issue_key |-> stream[i].key, attachment |-> stream[i].attachment[j]] :
        <<i, j>> \in {p \in (1..Len(stream)) \X (1..MaxAtt) :
                        p[2] <= Len(stream[p[1]].attachment)}}

\* the sightings of fingerprint f in the stream; attachment ids grow along
\* the stream, so the first sighting is the one with the least id
Sightings(f) ==
    {a \in StreamAttachments :
        _download_and_hash_single(a.attachment)[2] = f}

FirstSighting(f) ==
    CHOOSE a \in Sightings(f) :
        \A b \in Sightings(f) : a.attachment.id <= b.attachment.id

\* the group has one canonical location, the first of its list, which is
\* the first sighting of f and the group's canonical issue and attachment
CanonicalFirst(f, group) ==
    /\ Len(group.locations) >= 1
    /\ {i \in 1..Len(group.locations) : group.locations[i].is_canonical} = {1}
    /\ group.locations[1].issue_key = group.canonical_issue_key
    /\ group.locations[1].attachment_id = group.canonical_attachment_id
    /\ Sightings(f) # {}
    /\ group.canonical_attachment_id = FirstSighting(f).attachment.id
    /\ group.canonical_issue_key = FirstSighting(f).issue_key

\* C8: in memory and in the store, every group has exactly one canonical
\* location; it is the first sighting of the fingerprint in the stream and
\* agrees with canonical_issue_key and canonical_attachment_id, whatever
\* sightings, saves and resumes came after it.
CanonicalInv ==
    /\ \A f \in DOMAIN duplicate_groups :
          CanonicalFirst(f, duplicate_groups[f])
    /\ \A k \in DOMAIN db_groups :
          CanonicalFirst(k[2], GroupOfRow(db_groups[k]))

(***************************************************************************)
(* The catalog on its own: _process_issue applied to a stream of issues    *)
(* with one attachment each, drawn one at a time.                          *)
(***************************************************************************)
InitMerge ==
    /\ stream = <<>>
    /\ finish_order = [k \in 1..MaxAtt |-> k]
    /\ batch_size = 1
    /\ checkpoint_interval = 1
    /\ InitDownloadManager
    /\ InitScanner
    /\ InitRateLimiter

\* the n-th issue of the stream carries one attachment of the given shape
Sight(shape) ==
    LET n == Sum(seen) + 1
        issue == MkIssue(n, <<shape>>)
        f == _download_and_hash_single(issue.attachment[1])[2]
        r == _process_issue(issue, duplicate_groups, scan_stats)
    IN /\ n <= MaxSightings
       /\ IF shape.bytes > 1 /\ f \in DOMAIN seen THEN seen[f] < MaxRare
          ELSE TRUE
       /\ duplicate_groups' = r.groups
       /\ scan_stats' = r.stats
       /\ seen' = Put(seen, f, IF f \in DOMAIN seen THEN seen[f] + 1 ELSE 1)
       /\ downloads' = RequestsOf(issue)
       /\ UNCHANGED <<stream, batch_size, checkpoint_interval, max_file_size,
                      use_content_hash, finish_order, rlVars, client,
                      poolVars, pc, ret, step,
                      scan_state, start_at, issues_since_checkpoint, issues,
                      idx, folded, quick_wins, dbVars, h>>

NextMerge == \E shape \in AttShapes : Sight(shape)

SpecMerge == InitMerge /\ [][NextMerge]_vars

\* C9: after n sightings of a fingerprint its group has duplicate_count
\* n - 1 and min(n, 20) locations, and a sighting that finds 20 locations
\* adds none but still adds to duplicate_count, total_wasted_space,
\* duplicate_files and duplicate_size.
LocationCapCounts ==
    [][\A f \in DOMAIN duplicate_groups' :
          LET new == duplicate_groups'[f]
              size == scan_stats'.total_size - scan_stats.total_size
          IN /\ f \in DOMAIN seen' /\ seen'[f] >= 1
             /\ new.duplicate_count = seen'[f] - 1
             /\ Len(new.locations) = Min(seen'[f], 20)
             /\ (f \in DOMAIN duplicate_groups /\ seen'[f] # seen[f]
                 /\ Len(duplicate_groups[f].locations) = 20) =>
                   LET old == duplicate_groups[f]
                   IN /\ new.locations = old.locations
                      /\ new.duplicate_count = old.duplicate_count + 1
                      /\ new.total_wasted_space =
                             old.total_wasted_space + size
                      /\ scan_stats'.duplicate_files =
                             scan_stats.duplicate_files + 1
                      /\ scan_stats'.duplicate_size =
                             scan_stats.duplicate_size + size
      ]_vars

\* a fingerprint has been sighted more often than the cap and its group
\* holds 20 locations
CapReached ==
    \E f \in DOMAIN duplicate_groups :
        /\ seen[f] > 20
        /\ Len(duplicate_groups[f].locations) = 20
        /\ duplicate_groups[f].duplicate_count = seen[f] - 1

(***************************************************************************)
(* RateLimiter.wait_if_needed, called by the driver and by the download    *)
(* workers (threads of one ThreadPoolExecutor).  The method takes no lock: *)
(* each of its statements is a step of its own.                            *)
(***************************************************************************)
InitRL ==
    /\ stream = <<>>
    /\ finish_order = [k \in 1..MaxAtt |-> k]
    /\ batch_size = 1
    /\ checkpoint_interval = 1
    /\ InitDownloadManager
    /\ InitScanner
    /\ InitRateLimiter

scanVars == <<stream, batch_size, checkpoint_interval, max_file_size,
              use_content_hash, seen, finish_order, pc, ret, step, memVars,
              dbVars, h, client, poolVars>>

CallsOf(t) == Cardinality({i \in 1..Len(admitted) : admitted[i].thread = t})

\* a thread enters wait_if_needed
Call(t) ==
    /\ tpc[t] = "out" /\ CallsOf(t) < MaxCalls
    /\ tpc' = [tpc EXCEPT ![t] = "l117"]
    /\ UNCHANGED <<scanVars, now, last_request_time, current_time,
                   time_since_last, admitted>>

\* current_time = time.time()
ReadClock(t) ==
    /\ tpc[t] = "l117"
    /\ current_time' = [current_time EXCEPT ![t] = now]
    /\ tpc' = [tpc EXCEPT ![t] = "l118"]
    /\ UNCHANGED <<scanVars, now, last_request_time, time_since_last,
                   admitted>>

\* time_since_last = current_time - self.last_request_time, and the test
ReadLast(t) ==
    /\ tpc[t] = "l118"
    /\ time_since_last' =
           [time_since_last EXCEPT ![t] = current_time[t] - last_request_time]
    /\ tpc' = [tpc EXCEPT ![t] =
                  IF time_since_last'[t] < min_interval THEN "l122"
                  ELSE "l124"]
    /\ UNCHANGED <<scanVars, now, last_request_time, current_time, admitted>>

\* time.sleep(min_interval - time_since_last) returns
Wake(t) ==
    /\ tpc[t] = "l122"
    /\ now >= current_time[t] + (min_interval - time_since_last[t])
    /\ tpc' = [tpc EXCEPT ![t] = "l124"]
    /\ UNCHANGED <<scanVars, now, last_request_time, current_time,
                   time_since_last, admitted>>

\* self.last_request_time = time.time(); the caller sends its request
Admit(t) ==
    /\ tpc[t] = "l124"
    /\ last_request_time' = now
    /\ admitted' = Append(admitted, [thread |-> t, time |-> now])
    /\ tpc' = [tpc EXCEPT ![t] = "out"]
    /\ UNCHANGED <<scanVars, now, current_time, time_since_last>>

Tick ==
    /\ now < min_interval + MaxTime
    /\ now' = now + 1
    /\ UNCHANGED <<scanVars, last_request_time, tpc, current_time,
                   time_since_last, admitted>>

NextRL ==
    \/ \E t \in Threads : Call(t)
    \/ \E t \in Threads : ReadClock(t)
    \/ \E t \in Threads : ReadLast(t)
    \/ \E t \in Threads : Wake(t)
    \/ \E t \in Threads : Admit(t)
    \/ Tick

SpecRL == InitRL /\ [][NextRL]_vars

\* C10: any two admitted requests are at least min_interval apart and no
\* window of one second admits more than max_requests_per_second requests.
RateLimitBound ==
    /\ \A i, j \in 1..Len(admitted) :
          i < j => admitted[j].time - admitted[i].time >= min_interval
    /\ \A w \in 0..(min_interval + MaxTime) :
          Cardinality({i \in 1..Len(admitted) :
                         /\ admitted[i].time >= w
                         /\ admitted[i].time < w + OneSecond}) <= Rate

(***************************************************************************)
(* Scans that nothing disturbs, over streams in which a download may fail  *)
(* and an attachment may be over the size limit, with either hash mode and *)
(* any order of completion of the workers.                                 *)
(***************************************************************************)
DLShapes == [size : 1..MaxSize, bytes : 1..MaxContent, dl : DownloadOutcomes]

DLIssueShapes == UNION {[1..n -> DLShapes] : n \in 0..MaxAtt}

\* the number of attachments of the shapes whose download fails
RECURSIVE Failures(_)
Failures(shapes) ==
    IF shapes = <<>> THEN 0
    ELSE Cardinality({j \in 1..Len(shapes[1]) : shapes[1][j].dl # "ok"})
         + Failures(Tail(shapes))

StreamsDL ==
    UNION {{[i \in 1..n |-> MkIssue(i, s[i])] :
              s \in {t \in [1..n -> DLIssueShapes] :
                       /\ FirstAppearance(BytesOf(t))
                       /\ Failures(t) <= MaxFailures}} :
           n \in 0..MaxIssues}

InitDL ==
    /\ stream \in StreamsDL
    /\ finish_order \in Permutations(1..MaxAtt)
    /\ batch_size \in 1..MaxBatch
    /\ checkpoint_interval = 1
    /\ max_file_size \in 1..MaxSize
    /\ use_content_hash \in BOOLEAN
    /\ InitScanner
    /\ InitRateLimiter

NextDL ==
    \/ StartScan
    \/ LoopExit
    \/ FetchPage
    \/ ProcessIssue
    \/ PageDone
    \/ save_scan_state
    \/ save_scan_stats
    \/ save_duplicate_groups
    \/ save_checkpoint

SpecDL == InitDL /\ [][NextDL]_vars

\* the download of the attachment is requested and fails
DownloadFails(a) ==
    a.size <= max_file_size /\ use_content_hash /\ a.dl # "ok"

\* the download of the attachment is requested and succeeds
DownloadSucceeds(a) ==
    a.size <= max_file_size /\ use_content_hash /\ a.dl = "ok"

\* the number of attachments of the stream and the sum of their sizes
AttachmentCount == Cardinality(StreamAttachments)
DeclaredSize ==
    Sum([a \in StreamAttachments |-> a.attachment.size])

\* C11: for every batch of the stream download_and_hash_batch returns one
\* result per attachment, in order; the result of an attachment whose
\* download fails carries the URL-hash of its content URL and the results
\* of the attachments downloaded without failure carry the hash of their
\* bytes; the scan completes with every attachment of the stream counted
\* and a group for the URL-hash of every failed download.
DownloadFailureTolerated ==
    /\ \A i \in 1..Len(stream) :
          LET atts == stream[i].attachment
              results == download_and_hash_batch(atts)
          IN /\ Len(results) = Len(atts)
             /\ \A j \in 1..Len(atts) :
                   /\ results[j][1] = atts[j].id
                   /\ results[j][3] = atts[j]
                   /\ DownloadFails(atts[j]) =>
                         results[j][2] = hash_from_url(atts[j].content)
                   /\ DownloadSucceeds(atts[j]) =>
                         results[j][2] = hash_from_stream(atts[j].bytes)
    /\ pc = "done" =>
          /\ scan_state.status = "completed"
          /\ scan_state.processed_issues = Len(stream)
          /\ scan_stats.total_files = AttachmentCount
          /\ \A a \in StreamAttachments :
                DownloadFails(a.attachment) =>
                    hash_from_url(a.attachment.content)
                        \in DOMAIN duplicate_groups

\* a completed scan of a stream with a batch of two attachments, one whose
\* download failed and one downloaded and hashed by its bytes
FailureTolerated ==
    /\ pc = "done" /\ scan_state.status = "completed"
    /\ \E i \in 1..Len(stream) :
          \E j, k \in 1..Len(stream[i].attachment) :
             /\ DownloadFails(stream[i].attachment[j])
             /\ DownloadSucceeds(stream[i].attachment[k])
             /\ hash_from_url(stream[i].attachment[j].content)
                   \in DOMAIN duplicate_groups
             /\ hash_from_stream(stream[i].attachment[k].bytes)
                   \in DOMAIN duplicate_groups

\* C12: no download is requested for an attachment over the size limit and
\* its group is that of its URL-hash; an attachment within the limit, with
\* content hashing on, is requested exactly once; the completed scan counts
\* every attachment in total_files and total_size with its declared size.
OversizeBypass ==
    /\ (pc = "issues" /\ idx > 0) =>
          \A j \in 1..Len(issues[idx].attachment) :
             LET a == issues[idx].attachment[j]
             IN /\ a.id \in DOMAIN downloads
                /\ a.size > max_file_size =>
                      /\ downloads[a.id] = 0
                      /\ hash_from_url(a.content) \in DOMAIN duplicate_groups
                /\ (a.size <= max_file_size /\ use_content_hash) =>
                      downloads[a.id] = 1
    /\ pc = "done" =>
          /\ scan_stats.total_files = AttachmentCount
          /\ scan_stats.total_size = DeclaredSize

\* a batch just processed, content hashing on, holds an attachment over the
\* limit that was not requested and one within it that was requested once
OversizeSkipped ==
    /\ pc = "issues" /\ idx > 0 /\ use_content_hash
    /\ \E j, k \in 1..Len(issues[idx].attachment) :
          /\ issues[idx].attachment[j].size > max_file_size
          /\ downloads[issues[idx].attachment[j].id] = 0
          /\ issues[idx].attachment[k].size <= max_file_size
          /\ downloads[issues[idx].attachment[k].id] = 1

\* C13: in a completed scan the canonical issue and attachment of every
\* group are those of the first sighting of its fingerprint in the stream
\* and its locations are in stream order, whatever the order in which the
\* workers finished.
ClassificationStable ==
    pc = "done" =>
        \A f \in DOMAIN duplicate_groups :
            LET group == duplicate_groups[f]
            IN /\ Sightings(f) # {}
               /\ group.canonical_attachment_id =
                      FirstSighting(f).attachment.id
               /\ group.canonical_issue_key = FirstSighting(f).issue_key
               /\ \A k, l \in 1..Len(group.locations) :
                     k < l => group.locations[k].attachment_id
                              < group.locations[l].attachment_id

\* a completed scan whose workers finished in the reverse order of their
\* submission, with a group of two attachments of one batch
ReversedFinish ==
    /\ pc = "done"
    /\ finish_order[1] > finish_order[2]
    /\ \E f \in DOMAIN duplicate_groups :
          \E k, l \in 1..Len(duplicate_groups[f].locations) :
             /\ k < l
             /\ duplicate_groups[f].locations[k].issue_key
                   = duplicate_groups[f].locations[l].issue_key

\* C14: a scan that reaches completion, after whatever interruptions and
\* resumes, has a group for exactly the fingerprints of the uninterrupted
\* scan, each with the canonical issue key and canonical attachment id the
\* uninterrupted scan gives it.
ResumeCanonicalEquality ==
    (pc = "done" /\ ~h.fetch_failed) =>
        /\ DOMAIN duplicate_groups = DOMAIN Uninterrupted.groups
        /\ \A f \in DOMAIN duplicate_groups :
              /\ duplicate_groups[f].canonical_issue_key =
                     Uninterrupted.groups[f].canonical_issue_key
              /\ duplicate_groups[f].canonical_attachment_id =
                     Uninterrupted.groups[f].canonical_attachment_id

\* the rows of the scan in the next state are those _save_progress writes
\* from the scan state, statistics and groups of this state
ProgressSaved ==
    LET id == scan_state.scan_id
    IN /\ id \in DOMAIN db_scans' /\ db_scans'[id] = ScanRow(scan_state)
       /\ id \in DOMAIN db_stats' /\ db_stats'[id] = StatsRow(scan_stats)
       /\ \A f \in DOMAIN duplicate_groups :
             /\ <<id, f>> \in DOMAIN db_groups'
             /\ db_groups'[<<id, f>>] = GroupRow(duplicate_groups[f])
       /\ id \in DOMAIN db_ckpt' /\ db_ckpt'[id] = CheckpointRow(scan_state)

\* C15: whenever scan() exits with the KeyboardInterrupt that arrived in
\* its loop, the store holds the progress of that moment (_save_progress
\* has run once more), the stored status is 'running' and a checkpoint row
\* exists.
InterruptSavesProgress ==
    [][(h'.raised = "KeyboardInterrupt" /\ h.raised # "KeyboardInterrupt") =>
          /\ pc' = "idle"
          /\ ProgressSaved
          /\ db_scans'[scan_state.scan_id].status = "running"
          /\ scan_state.scan_id \in DOMAIN db_ckpt'
      ]_vars

\* scan() has exited with KeyboardInterrupt after at least one page, and
\* the stored scan is running and has a checkpoint
InterruptedAndSaved ==
    /\ pc = "idle" /\ h.raised = "KeyboardInterrupt"
    /\ ScanId \in DOMAIN db_scans /\ ScanId \in DOMAIN db_ckpt
    /\ db_scans[ScanId].status = "running"
    /\ db_scans[ScanId].processed_issues > 0

\* C17: the stored status of every scan is 'running' or 'completed'; and
\* whenever scan() exits with the exception that made its loop fail, the
\* store holds the progress of that moment and the stored status is
\* 'running'.
NeverFailedStatus ==
    [][/\ \A id \in DOMAIN db_scans' :
             db_scans'[id].status \in {"running", "completed"}
       /\ (h'.raised = "Exception" /\ h.raised # "Exception") =>
             /\ pc' = "idle"
             /\ ProgressSaved
             /\ db_scans'[scan_state.scan_id].status = "running"
      ]_vars

\* scan() has exited with the exception raised while a page was being
\* merged, and the stored scan is running with its checkpoint
FailedLoopLeftRunning ==
    /\ pc = "idle" /\ h.raised = "Exception" /\ h.faults > 0
    /\ ScanId \in DOMAIN db_scans /\ ScanId \in DOMAIN db_ckpt
    /\ db_scans[ScanId].status = "running"

\* C16: once the remote has answered a request of the scan with 401 or
\* 403, the scan is not completed, in memory or in the store, and scan()
\* does not return results.
AuthFailureIsFatal ==
    h.http \in {401, 403} =>
        /\ pc # "done"
        /\ scan_state.status # "completed"
        /\ \A id \in DOMAIN db_scans : db_scans[id].status # "completed"

\* the stored groups of scan id in the two states of a step are the same
GroupsUnchanged(id) ==
    \A k \in DOMAIN db_groups \cup DOMAIN db_groups' :
        k[1] = id => /\ k \in DOMAIN db_groups /\ k \in DOMAIN db_groups'
                     /\ db_groups'[k] = db_groups[k]

\* C18: a scan whose stored status is 'completed' keeps that status, its
\* stored statistics and its stored groups in every step that leaves its
\* scans row in the store, the remaining writes of the _save_progress
\* that completes it apart.
CompletedIsTerminal ==
    [][\A id \in DOMAIN db_scans \cap DOMAIN db_scans' :
          (db_scans[id].status = "completed"
           /\ ~(pc = "save" /\ ret = "final")) =>
             /\ db_scans'[id].status = "completed"
             /\ (id \in DOMAIN db_stats) = (id \in DOMAIN db_stats')
             /\ id \in DOMAIN db_stats => db_stats'[id] = db_stats[id]
             /\ GroupsUnchanged(id)
      ]_vars

(***************************************************************************)
(* The command line over one store: main() without flags, --resume and     *)
(* --reset, each in a process of its own, with the scans they run.         *)
(***************************************************************************)
\* the rows of a table whose keys are not in keys
Without(table, keys) == [x \in DOMAIN table \ keys |-> table[x]]

\* find_incomplete_scans: the running scans, the most recent first (scan
\* ids are drawn in the order of the start times)
find_incomplete_scans ==
    LET running == {id \in DOMAIN db_scans : db_scans[id].status = "running"}
    IN CHOOSE q \in [1..Cardinality(running) -> running] :
          \A i, j \in 1..Cardinality(running) : i < j => q[i] > q[j]

\* a reset that leaves the groups of the scan behind
reset_scanKeepsGroups(scan_id) ==
    /\ pc \in {"idle", "done"}
    /\ db_ckpt' = Without(db_ckpt, {scan_id})
    /\ db_stats' = Without(db_stats, {scan_id})
    /\ db_scans' = Without(db_scans, {scan_id})
    /\ db_folded' = Without(db_folded, {scan_id})
    /\ committed' = <<db_scans', db_stats', db_groups, db_ckpt'>>
    /\ Exit
    /\ UNCHANGED <<envVars, h, db_groups>>

\* reset_scan: four DELETEs and one commit
reset_scan(scan_id) ==
    /\ pc \in {"idle", "done"}
    /\ db_ckpt' = Without(db_ckpt, {scan_id})
    /\ db_groups' = Without(db_groups,
                            {k \in DOMAIN db_groups : k[1] = scan_id})
    /\ db_stats' = Without(db_stats, {scan_id})
    /\ db_scans' = Without(db_scans, {scan_id})
    /\ db_folded' = Without(db_folded, {scan_id})
    /\ committed' = <<db_scans', db_stats', db_groups', db_ckpt'>>
    /\ Exit
    /\ UNCHANGED <<envVars, h>>

\* main() without flags: "Starting new scan...", scanner.scan()
MainDefault ==
    /\ h.scans < MaxScans
    /\ _initialize_scan(h.scans + 1)

\* main() with --resume SCAN_ID
MainResume == \E scan_id \in DOMAIN db_scans : ScanResume(scan_id)

\* main() with --reset SCAN_ID
MainReset == \E scan_id \in 1..MaxScans : reset_scan(scan_id)

\* streams of issues with one attachment each, all of one size
StreamsStore ==
    UNION {{[i \in 1..n |-> MkIssue(i, <<[size |-> 1, bytes |-> b[i]]>>)] :
              b \in {c \in [1..n -> 1..MaxContent] : FirstAppearance(c)}} :
           n \in 0..MaxIssues}

InitStore ==
    /\ stream \in StreamsStore
    /\ finish_order = [k \in 1..MaxAtt |-> k]
    /\ batch_size \in 1..MaxBatch
    /\ checkpoint_interval \in 1..MaxInterval
    /\ InitDownloadManager
    /\ InitScanner
    /\ InitRateLimiter

NextStore ==
    \/ MainDefault
    \/ MainResume
    \/ MainReset
    \/ LoopExit
    \/ FetchPage
    \/ ProcessIssue
    \/ PageDone
    \/ save_scan_state
    \/ save_scan_stats
    \/ save_duplicate_groups
    \/ save_checkpoint
    \/ Interrupt

SpecStore == InitStore /\ [][NextStore]_vars

\* C19: main() without flags resumes the most recent running scan of the
\* store and creates no scan record when there is one, and starts a new
\* scan only when there is none.
DefaultAutoResumes ==
    [][MainDefault =>
          IF find_incomplete_scans # <<>>
          THEN /\ DOMAIN db_scans' = DOMAIN db_scans
               /\ scan_state'.scan_id = find_incomplete_scans[1]
          ELSE DOMAIN db_scans' # DOMAIN db_scans
      ]_vars

\* the other tables' rows of every scan but scan_id are the same in the
\* two states of a step
OthersUnchanged(scan_id) ==
    /\ \A id \in (DOMAIN db_scans \cup DOMAIN db_scans') \ {scan_id} :
          id \in DOMAIN db_scans /\ id \in DOMAIN db_scans'
          /\ db_scans'[id] = db_scans[id]
    /\ \A id \in (DOMAIN db_stats \cup DOMAIN db_stats') \ {scan_id} :
          id \in DOMAIN db_stats /\ id \in DOMAIN db_stats'
          /\ db_stats'[id] = db_stats[id]
    /\ \A id \in (DOMAIN db_ckpt \cup DOMAIN db_ckpt') \ {scan_id} :
          id \in DOMAIN db_ckpt /\ id \in DOMAIN db_ckpt'
          /\ db_ckpt'[id] = db_ckpt[id]
    /\ \A id \in 1..MaxScans : id # scan_id => GroupsUnchanged(id)

\* C20: after reset_scan(scan_id) none of the four tables holds a row of
\* scan_id and every row of every other scan is as it was.
ResetCascades ==
    [][\A scan_id \in 1..MaxScans :
          reset_scan(scan_id) =>
             /\ scan_id \notin DOMAIN db_scans'
             /\ scan_id \notin DOMAIN db_stats'
             /\ scan_id \notin DOMAIN db_ckpt'
             /\ \A k \in DOMAIN db_groups' : k[1] # scan_id
             /\ OthersUnchanged(scan_id)
      ]_vars

\* two scans were started; the first has been reset and is gone from the
\* four tables, the second is stored with its groups and checkpoint
ResetOneOfTwo ==
    /\ h.scans = 2
    /\ 1 \notin DOMAIN db_scans /\ 1 \notin DOMAIN db_stats
    /\ 1 \notin DOMAIN db_ckpt
    /\ \A k \in DOMAIN db_groups : k[1] # 1
    /\ 2 \in DOMAIN db_scans /\ 2 \in DOMAIN db_stats /\ 2 \in DOMAIN db_ckpt
    /\ \E k \in DOMAIN db_groups : k[1] = 2

(***************************************************************************)
(* The maintenance commands of the command line, --cleanup DAYS and        *)
(* --reset without a scan id, over a store filled by scans that complete   *)
(* or are interrupted at different times of the wall clock.                *)
(***************************************************************************)
\* datetime.fromisoformat of a time stamp, in ticks
fromisoformat(text) ==
    text[1] * OneSecond + (IF Len(text) = 2 THEN 0 ELSE text[3])

\* for scan_id in scan_ids: self.reset_scan(scan_id)
DeleteScans(scan_ids) ==
    /\ db_ckpt' = Without(db_ckpt, scan_ids)
    /\ db_groups' = Without(db_groups,
                            {k \in DOMAIN db_groups : k[1] \in scan_ids})
    /\ db_stats' = Without(db_stats, scan_ids)
    /\ db_scans' = Without(db_scans, scan_ids)
    /\ db_folded' = Without(db_folded, scan_ids)
    /\ committed' = <<db_scans', db_stats', db_groups', db_ckpt'>>

\* a selection that takes every completed scan, whatever its age
OldScansNoCutoff(keep_days) ==
    {id \in DOMAIN db_scans : db_scans[id].status = "completed"}

\* SELECT scan_id FROM scans WHERE status = 'completed'
\*                             AND completion_time < cutoff_date
OldScans(keep_days) ==
    LET cutoff_date == isoformat(now - keep_days * OneDay)
    IN {id \in DOMAIN db_scans :
          /\ db_scans[id].status = "completed"
          /\ db_scans[id].completion_time # None
          /\ TextLess(db_scans[id].completion_time, cutoff_date)}

\* SELECT scan_id FROM scans WHERE status = 'running'
RunningScans == {id \in DOMAIN db_scans : db_scans[id].status = "running"}

cleanup_old_scans(keep_days) ==
    /\ pc \in {"idle", "done"}
    /\ now - keep_days * OneDay >= 0
    /\ DeleteScans(OldScans(keep_days))
    /\ h' = [h EXCEPT !.returned = Cardinality(OldScans(keep_days))]
    /\ Exit
    /\ UNCHANGED envVars

reset_all_incomplete_scans ==
    /\ pc \in {"idle", "done"}
    /\ DeleteScans(RunningScans)
    /\ Exit
    /\ UNCHANGED <<envVars, h>>

\* main() with --cleanup DAYS; a DAYS of 0 does not select the command
MainCleanup == \E days \in 1..MaxDays : cleanup_old_scans(days)

\* main() with --reset and no scan id
MainResetAll == reset_all_incomplete_scans

\* the wall clock advances between two runs of the command line
Elapse ==
    /\ pc \in {"idle", "done"}
    /\ \E d \in {1, OneDay} :
          /\ now + d <= min_interval + MaxDays * OneDay
          /\ now' = now + d
    /\ UNCHANGED <<scanVars, last_request_time, tpc, current_time,
                   time_since_last, admitted>>

InitAdmin ==
    /\ stream \in {s \in StreamsStore : Len(s) <= 1}
    /\ finish_order = [k \in 1..MaxAtt |-> k]
    /\ batch_size = MaxBatch
    /\ checkpoint_interval = 1
    /\ InitDownloadManager
    /\ InitScanner
    /\ InitRateLimiter

\* --resume SCAN_ID, at most once between the maintenance commands
ResumeOnce == h.resumes = 0 /\ MainResume

NextAdmin ==
    \/ MainDefault
    \/ ResumeOnce
    \/ MainCleanup
    \/ MainResetAll
    \/ Elapse
    \/ LoopExit
    \/ FetchPage
    \/ ProcessIssue
    \/ PageDone
    \/ save_scan_state
    \/ save_scan_stats
    \/ save_duplicate_groups
    \/ save_checkpoint
    \/ Interrupt

SpecAdmin == InitAdmin /\ [][NextAdmin]_vars

\* the rows of every scan outside scan_ids are the same in the two states
\* of a step, in the four tables
KeptUnchanged(scan_ids) ==
    /\ \A id \in (DOMAIN db_scans \cup DOMAIN db_scans') \ scan_ids :
          id \in DOMAIN db_scans /\ id \in DOMAIN db_scans'
          /\ db_scans'[id] = db_scans[id]
    /\ \A id \in (DOMAIN db_stats \cup DOMAIN db_stats') \ scan_ids :
          id \in DOMAIN db_stats /\ id \in DOMAIN db_stats'
          /\ db_stats'[id] = db_stats[id]
    /\ \A id \in (DOMAIN db_ckpt \cup DOMAIN db_ckpt') \ scan_ids :
          id \in DOMAIN db_ckpt /\ id \in DOMAIN db_ckpt'
          /\ db_ckpt'[id] = db_ckpt[id]
    /\ \A id \in 1..MaxScans : id \notin scan_ids => GroupsUnchanged(id)

\* no table holds a row of a scan of scan_ids after the step
Deleted(scan_ids) ==
    /\ DOMAIN db_scans' \cap scan_ids = {}
    /\ DOMAIN db_stats' \cap scan_ids = {}
    /\ DOMAIN db_ckpt' \cap scan_ids = {}
    /\ \A k \in DOMAIN db_groups' : k[1] \notin scan_ids

\* the completed scans of the store that completed before the cutoff
CompletedBefore(cutoff) ==
    {id \in DOMAIN db_scans :
       /\ db_scans[id].status = "completed"
       /\ fromisoformat(db_scans[id].completion_time) < cutoff}

\* C21: cleanup_old_scans(days) deletes exactly the completed scans that
\* completed before the cutoff, returns their number and leaves every other
\* scan as it was; reset_all_incomplete_scans deletes exactly the running
\* scans and leaves the completed ones as they were.
CleanupExact ==
    [][/\ \A days \in 1..MaxDays :
             cleanup_old_scans(days) =>
                LET old == CompletedBefore(now - days * OneDay)
                IN /\ Deleted(old)
                   /\ KeptUnchanged(old)
                   /\ h'.returned = Cardinality(old)
       /\ reset_all_incomplete_scans =>
             /\ Deleted(RunningScans)
             /\ KeptUnchanged(RunningScans)
      ]_vars

\* a cleanup has just deleted one completed scan and kept a running scan
\* and a completed scan that is not old enough
CleanupKeptRecent ==
    /\ h.returned = 1 /\ pc = "idle"
    /\ \E id \in DOMAIN db_scans : db_scans[id].status = "completed"
    /\ \E id \in DOMAIN db_scans : db_scans[id].status = "running"

\* C22: when the count is 0 the scan sends no search and no download
\* request, and when it has finished, the scan in memory and the stored
\* scan have total_issues = 0, processed_issues = 0, no group, statistics
\* that are all zero and the status 'completed'.
EmptyPredicate ==
    /\ [][(pc # "idle" /\ scan_state.total_issues = 0) =>
             /\ ~FetchPage /\ ~FetchFails /\ ~ProcessIssue
             /\ downloads' = EmptyMap
         ]_vars
    /\ [](pc = "done" /\ scan_state.total_issues = 0 =>
            LET id == scan_state.scan_id
            IN /\ scan_state.processed_issues = 0
               /\ scan_state.status = "completed"
               /\ duplicate_groups = EmptyMap
               /\ scan_stats = _initialize_stats
               /\ id \in DOMAIN db_scans
               /\ db_scans[id].status = "completed"
               /\ db_scans[id].total_issues = 0
               /\ db_scans[id].processed_issues = 0
               /\ id \in DOMAIN db_stats
               /\ db_stats[id] = StatsRow(_initialize_stats)
               /\ \A k \in DOMAIN db_groups : k[1] # id)

\* a scan of an empty stream has finished, without any resume
EmptyScanCompleted ==
    /\ pc = "done" /\ stream = <<>> /\ h.resumes = 0
    /\ scan_state.total_issues = 0
    /\ db_scans[scan_state.scan_id].status = "completed"

(***************************************************************************)
(* _finalize_scan over catalogs of up to MaxGroups groups: the scan has    *)
(* read its stream in one page, below the checkpoint interval, and is at   *)
(* the test of its loop.                                                   *)
(***************************************************************************)
\* per fingerprint, the size of its file and the number of its sightings
QWShapes == [size : 1..MaxSize, count : 1..(MaxRare + 1)]

\* the stream in which fingerprint k is sighted c[k].count times, one
\* attachment per issue, the fingerprints taking turns
StreamOf(c) ==
    LET n == Len(c)
        turns == [i \in 1..(n * (MaxRare + 1)) |->
                     [k |-> ((i - 1) % n) + 1, r |-> ((i - 1) \div n) + 1]]
        sel == SelectSeq(turns, LAMBDA x : x.r <= c[x.k].count)
    IN [i \in 1..Len(sel) |->
           MkIssue(i, <<[size |-> c[sel[i].k].size, bytes |-> sel[i].k]>>)]

StreamsQW ==
    UNION {{StreamOf(c) : c \in [1..n -> QWShapes]} : n \in 1..MaxGroups}

InitQW ==
    /\ stream \in StreamsQW
    /\ finish_order = [k \in 1..MaxAtt |-> k]
    /\ batch_size = Len(stream)
    /\ checkpoint_interval = Len(stream) + 1
    /\ InitDownloadManager
    /\ InitRateLimiter
    /\ pc = "loop" /\ ret = "none" /\ step = 0
    /\ scan_state = [scan_id |-> ScanId, status |-> "running",
                     total_issues |-> Len(stream),
                     processed_issues |-> Len(stream), last_start_at |-> 0,
                     completion_time |-> None,
                     jql_query |-> build_jql_query(DefaultFilters)]
    /\ start_at = batch_size /\ issues_since_checkpoint = Len(stream)
    /\ issues = stream /\ idx = Len(stream)
    /\ duplicate_groups = Uninterrupted.groups
    /\ scan_stats = Uninterrupted.stats
    /\ db_scans = Put(EmptyMap, ScanId,
                      ScanRow([scan_state EXCEPT !.processed_issues = 0]))
    /\ db_stats = EmptyMap /\ db_groups = EmptyMap /\ db_ckpt = EmptyMap
    /\ folded = {0} /\ db_folded = EmptyMap
    /\ committed = <<db_scans, EmptyMap, EmptyMap, EmptyMap>>
    /\ h = [NoHistory EXCEPT !.scans = 1]
    /\ seen = EmptyMap
    /\ downloads = RequestsOf(stream[Len(stream)])
    /\ quick_wins = <<>>

NextQW ==
    \/ LoopExit
    \/ save_scan_state
    \/ save_scan_stats
    \/ save_duplicate_groups
    \/ save_checkpoint

SpecQW == InitQW /\ [][NextQW]_vars

\* the fingerprints of the catalog whose group has duplicate_count > 0
WithDuplicates ==
    {f \in DOMAIN duplicate_groups :
        duplicate_groups[f].duplicate_count > 0}

\* C23: quick_wins holds at most 3 entries, min(3, number of groups with
\* duplicate_count > 0) of them, each of a group with duplicate_count > 0,
\* by total_wasted_space descending, and no group with duplicate_count > 0
\* that is left out wastes more than one that is included.
QuickWinsTopThree ==
    (pc = "done" \/ (pc = "save" /\ ret = "final")) =>
       LET n == Len(quick_wins)
           included == {quick_wins[i].hash : i \in 1..n}
       IN /\ n <= 3
          /\ n = Min(3, Cardinality(WithDuplicates))
          /\ Cardinality(included) = n
          /\ included \subseteq WithDuplicates
          /\ \A i \in 1..n :
                LET group == duplicate_groups[quick_wins[i].hash]
                IN /\ quick_wins[i].duplicate_count = group.duplicate_count
                   /\ quick_wins[i].duplicate_count > 0
                   /\ quick_wins[i].total_wasted_space
                        = group.total_wasted_space
          /\ \A i, j \in 1..n :
                i < j => quick_wins[i].total_wasted_space
                           >= quick_wins[j].total_wasted_space
          /\ \A f \in WithDuplicates \ included : \A i \in 1..n :
                duplicate_groups[f].total_wasted_space
                   <= quick_wins[i].total_wasted_space

\* four groups have duplicates, of three different amounts of wasted
\* space, and the scan has returned three quick wins
QuickWinsLeaveOneOut ==
    /\ pc = "done" /\ Len(quick_wins) = 3
    /\ Cardinality(WithDuplicates) = 4
    /\ Cardinality({duplicate_groups[f].total_wasted_space :
                      f \in WithDuplicates}) >= 3

(***************************************************************************)
(* JiraDataCenterClient.  The driver calls get_total_issue_count,          *)
(* search_issues and test_connection, the workers download_attachment;     *)
(* each method calls wait_if_needed and then hands the request to the      *)
(* session, whose adapter was built with max_retries = 3 and sends again   *)
(* by its own rules: after a failed connection, and after a response with  *)
(* a Retry-After header and one of the statuses 413, 429 and 503.          *)
(***************************************************************************)
RETRY_AFTER_STATUS_CODES == {413, 429, 503}

\* what the remote does with one request: status 0 is a connection that
\* fails, the others are responses, with or without a Retry-After header
Answers ==
    {[status |-> 0, retry_after |-> FALSE]}
    \cup [status : {200, 401, 429, 500, 503}, retry_after : BOOLEAN]

\* the methods of the client a thread calls
Kinds(t) == IF t = 1 THEN {"count", "search", "myself"} ELSE {"download"}

\* the adapter sends the request again
is_retry(answer) ==
    \/ answer.status = 0
    \/ answer.retry_after /\ answer.status \in RETRY_AFTER_STATUS_CODES

\* response.raise_for_status()
raise_for_status(status) == IF status >= 400 THEN "HTTPError" ELSE "response"

\* what the method returns or raises: _make_request turns an HTTPError and
\* a ConnectionError into an Exception with a message, download_attachment
\* lets them through
ResultOf(kind, outcome, status) ==
    IF kind = "download" THEN outcome
    ELSE CASE outcome = "HTTPError" -> _make_request(status)
           [] outcome = "ConnectionError" ->
                 "Connection error. Check network and Jira URL."
           [] OTHER -> outcome

\* a thread enters a method of the client; the workers run while the
\* driver is inside download_and_hash_batch, and at no other time
Begin(t, kind) ==
    /\ client[t].pos = "idle" /\ tpc[t] = "out" /\ CallsOf(t) < MaxRequests
    /\ IF t = 1 THEN \A u \in Threads \ {1} : client[u].pos = "idle"
       ELSE client[1].pos = "idle"
    /\ client' = [client EXCEPT ![t] =
                     [NoCall EXCEPT !.pos = "call", !.kind = kind,
                                    !.calls = CallsOf(t)]]
    /\ UNCHANGED <<stream, batch_size, checkpoint_interval, max_file_size,
                   use_content_hash, seen, finish_order, pc, ret, step,
                   memVars, dbVars, h, rlVars, poolVars>>

\* wait_if_needed of the method has returned
Acquired(t) == tpc[t] = "out" /\ CallsOf(t) > client[t].calls

\* self.rate_limiter.wait_if_needed(), the first statement of the method
Acquire(t) ==
    /\ client[t].pos = "call" /\ ~Acquired(t)
    /\ Call(t)

\* a method that does not wait for the rate limiter
TransmitGuardNoWait(t) == client[t].pos = "call" /\ tpc[t] = "out"

\* session.request / session.get is reached after wait_if_needed
TransmitGuard(t) == client[t].pos = "call" /\ Acquired(t)

\* the adapter sends the request and the remote answers
Transmit(t) ==
    /\ TransmitGuard(t)
    /\ \E answer \in Answers :
          LET c == client[t]
              n == c.attempts + 1
              outcome == IF is_retry(answer)
                         THEN IF n <= max_retries THEN "retry"
                              ELSE IF answer.status = 0
                                   THEN "ConnectionError"
                                   ELSE "RetryError"
                         ELSE raise_for_status(answer.status)
          IN client' = [client EXCEPT ![t] =
                 [c EXCEPT !.attempts = n,
                           !.first = IF n = 1 THEN <<answer>> ELSE @,
                           !.pos = IF outcome = "retry" THEN "call"
                                   ELSE "done",
                           !.result = IF outcome = "retry" THEN "none"
                                      ELSE ResultOf(c.kind, outcome,
                                                    answer.status)]]
    /\ UNCHANGED <<stream, batch_size, checkpoint_interval, max_file_size,
                   use_content_hash, seen, finish_order, pc, ret, step,
                   memVars, dbVars, h, rlVars, poolVars>>

\* the method returns or raises
Return(t) ==
    /\ client[t].pos = "done"
    /\ client' = [client EXCEPT ![t] = NoCall]
    /\ UNCHANGED <<stream, batch_size, checkpoint_interval, max_file_size,
                   use_content_hash, seen, finish_order, pc, ret, step,
                   memVars, dbVars, h, rlVars, poolVars>>

NextHTTP ==
    \/ \E t \in Threads : \E kind \in Kinds(t) : Begin(t, kind)
    \/ \E t \in Threads : Acquire(t)
    \/ \E t \in Threads : ReadClock(t)
    \/ \E t \in Threads : ReadLast(t)
    \/ \E t \in Threads : Wake(t)
    \/ \E t \in Threads : Admit(t)
    \/ \E t \in Threads : Transmit(t)
    \/ \E t \in Threads : Return(t)
    \/ Tick

SpecHTTP == InitRL /\ [][NextHTTP]_vars

\* C24: whenever a thread has sent a request in a method of the client,
\* the wait_if_needed that the thread called in that method has returned.
AcquireBeforeSend ==
    \A t \in Threads :
       client[t].attempts > 0 =>
          /\ tpc[t] = "out"
          /\ CallsOf(t) > client[t].calls
          /\ admitted[CHOOSE i \in 1..Len(admitted) :
                        /\ admitted[i].thread = t
                        /\ \A j \in (i + 1)..Len(admitted) :
                              admitted[j].thread # t].time <= now

\* the driver has sent a request, and a worker has then sent a download
\* request that the adapter sent again
SearchAndDownloadSent ==
    /\ CallsOf(1) > 0
    /\ \E t \in Threads \ {1} :
          /\ client[t].pos = "done" /\ client[t].kind = "download"
          /\ client[t].attempts > 1

\* C25: a GET whose first response is a 5xx is sent again, at most 3
\* times in all, before the error reaches the caller; a GET whose first
\* response is a 429 is not sent again, and _make_request raises the rate
\* limit error for it.
RetryPolicy ==
    \A t \in Threads :
       (client[t].pos = "done" /\ client[t].first[1].status # 0) =>
          /\ client[t].attempts <= 3
          /\ client[t].first[1].status >= 500 => client[t].attempts > 1
          /\ client[t].first[1].status = 429 =>
                /\ client[t].attempts = 1
                /\ client[t].kind # "download" =>
                      client[t].result = _make_request(429)

(***************************************************************************)
(* The scan loop over a remote that may answer a search with fewer issues  *)
(* than asked for although more issues follow.  The issues carry one       *)
(* attachment each, so that total_files counts the issues processed.       *)
(***************************************************************************)
\* streams of up to MaxPagedIssues issues with one attachment each
StreamsPaged ==
    UNION {{[i \in 1..n |-> MkIssue(i, <<[size |-> 1, bytes |-> b[i]]>>)] :
              b \in {c \in [1..n -> 1..MaxContent] : FirstAppearance(c)}} :
           n \in 0..MaxPagedIssues}

\* search_issues returns a page shorter than max_results before the end
\* of the stream; an empty one breaks the loop
FetchShortPage ==
    /\ pc = "loop" /\ WhileCondition
    /\ \E k \in 0..(batch_size - 1) :
          /\ k < Len(stream) - start_at
          /\ IF k = 0
             THEN Finalize
             ELSE /\ issues' = search_issues(start_at, k) /\ idx' = 0
                  /\ pc' = "issues"
                  /\ UNCHANGED <<envVars, ret, step, scan_state, start_at,
                                 issues_since_checkpoint, duplicate_groups,
                                 scan_stats, folded, downloads, quick_wins,
                                 dbVars>>
    /\ h' = [h EXCEPT !.short = TRUE]

InitPaged ==
    /\ stream \in StreamsPaged
    /\ finish_order = [k \in 1..MaxAtt |-> k]
    /\ batch_size \in 1..MaxBatch
    /\ checkpoint_interval \in 1..MaxInterval
    /\ InitDownloadManager
    /\ InitScanner
    /\ InitRateLimiter

NextPaged ==
    \/ StartScan
    \/ LoopExit
    \/ FetchPage
    \/ FetchShortPage
    \/ ProcessIssue
    \/ PageDone
    \/ save_scan_state
    \/ save_scan_stats
    \/ save_duplicate_groups
    \/ save_checkpoint

SpecPaged == InitPaged /\ [][NextPaged]_vars

\* the keys of the issues whose attachment is in the catalog
ProcessedKeys ==
    UNION {{duplicate_groups[f].locations[i].issue_key :
              i \in 1..Len(duplicate_groups[f].locations)} :
           f \in DOMAIN duplicate_groups}

\* C26: as long as no page is short before the end of the stream, the
\* issues are processed one by one in the order of their positions, each
\* once, and at completion processed_issues = total_issues and every
\* issue has been processed; a scan that was given a short page before
\* the end completes with issues it has skipped.
CoverageUnlessShortPage ==
    /\ [][(ProcessIssue /\ ~h.short) =>
             /\ issues[idx + 1].key = scan_stats.total_files + 1
             /\ scan_stats'.total_files = scan_stats.total_files + 1
         ]_vars
    /\ [](pc = "done" /\ ~h.short =>
             /\ scan_state.processed_issues = scan_state.total_issues
             /\ scan_stats.total_files = Len(stream)
             /\ ProcessedKeys = 1..Len(stream))
    /\ [](pc = "done" /\ h.short =>
             /\ scan_stats.total_files < Len(stream)
             /\ scan_state.processed_issues < scan_state.total_issues
             /\ ProcessedKeys # 1..Len(stream))

\* the scan has completed after a short page: it has skipped an issue and
\* processed one that follows it
SkippedAfterShortPage ==
    /\ pc = "done" /\ h.short
    /\ \E i, j \in 1..Len(stream) :
          i < j /\ i \notin ProcessedKeys /\ j \in ProcessedKeys

\* C27: a scan that was interrupted once, at any point, was resumed and
\* has completed counts every attachment of the stream once: total_files
\* is the number of attachments and each group has counted the sightings
\* of its fingerprint but the first as duplicates.
ExactlyOnceAfterInterrupt ==
    (pc = "done" /\ h.intrs = 1 /\ h.resumes = 1 /\ h.faults = 0) =>
       /\ scan_stats.total_files = AttachmentCount
       /\ scan_stats.canonical_files + scan_stats.duplicate_files
            = AttachmentCount
       /\ \A f \in DOMAIN duplicate_groups :
             duplicate_groups[f].duplicate_count
                = Cardinality(Sightings(f)) - 1

(***************************************************************************)
(* _process_issue step by step: download_and_hash_batch submits one task   *)
(* per attachment to the executor, the workers take and finish the tasks   *)
(* in any order, the driver waits for the futures in the order of          *)
(* submission, and the results are merged when the batch has returned.     *)
(* A task is "queued", "running" or "finished".                            *)
(***************************************************************************)
\* the ids of the attachments of the issue the driver is at
BatchIds ==
    {issues[idx + 1].attachment[j].id :
        j \in 1..Len(issues[idx + 1].attachment)}

\* if not attachments: return
NoAttachments ==
    /\ pc = "issues" /\ idx < Len(issues)
    /\ issues[idx + 1].attachment = <<>>
    /\ idx' = idx + 1
    /\ UNCHANGED <<envVars, pc, ret, step, scan_state, start_at,
                   issues_since_checkpoint, issues, duplicate_groups,
                   scan_stats, folded, downloads, quick_wins, dbVars, h>>

\* for attachment in attachments: self.executor.submit(...)
SubmitBatch ==
    /\ pc = "issues" /\ idx < Len(issues)
    /\ issues[idx + 1].attachment # <<>>
    /\ tasks' = [id \in DOMAIN tasks \cup BatchIds |->
                    IF id \in BatchIds THEN "queued" ELSE tasks[id]]
    /\ joined' = 0
    /\ pc' = "batch"
    /\ UNCHANGED <<stream, batch_size, checkpoint_interval, max_file_size,
                   use_content_hash, seen, finish_order, rlVars, client,
                   ret, step, memVars, dbVars, h>>

\* a worker thread takes a task: _download_and_hash_single begins
WorkerStart(id) ==
    /\ id \in DOMAIN tasks /\ tasks[id] = "queued"
    /\ tasks' = [tasks EXCEPT ![id] = "running"]
    /\ UNCHANGED <<stream, batch_size, checkpoint_interval, max_file_size,
                   use_content_hash, seen, finish_order, rlVars, client,
                   joined, pc, ret, step, memVars, dbVars, h>>

\* a worker that merges its own result into the catalog
WorkerFinishMerges(id) ==
    /\ id \in DOMAIN tasks /\ tasks[id] = "running"
    /\ tasks' = [tasks EXCEPT ![id] = "finished"]
    /\ LET a == (CHOOSE x \in StreamAttachments : x.attachment.id = id)
           r == _process_attachment_result(
                    a.attachment, _download_and_hash_single(a.attachment)[2],
                    stream[a.issue_key], duplicate_groups, scan_stats)
       IN /\ duplicate_groups' = r.groups
          /\ scan_stats' = r.stats
    /\ UNCHANGED <<stream, batch_size, checkpoint_interval, max_file_size,
                   use_content_hash, seen, finish_order, rlVars, client,
                   joined, pc, ret, step, scan_state, start_at,
                   issues_since_checkpoint, issues, idx, folded, downloads,
                   quick_wins, dbVars, h>>

\* _download_and_hash_single returns its tuple: the future is done
WorkerFinish(id) ==
    /\ id \in DOMAIN tasks /\ tasks[id] = "running"
    /\ tasks' = [tasks EXCEPT ![id] = "finished"]
    /\ UNCHANGED <<stream, batch_size, checkpoint_interval, max_file_size,
                   use_content_hash, seen, finish_order, rlVars, client,
                   joined, pc, ret, step, memVars, dbVars, h>>

\* a future whose result is taken without waiting for the task
FutureDoneOrNot(id) == id \in DOMAIN tasks

\* future.result() blocks until the task has finished
FutureDone(id) == id \in DOMAIN tasks /\ tasks[id] = "finished"

\* for future, attachment in futures: result = future.result()
JoinFuture ==
    /\ pc = "batch" /\ joined < Len(issues[idx + 1].attachment)
    /\ FutureDone(issues[idx + 1].attachment[joined + 1].id)
    /\ joined' = joined + 1
    /\ UNCHANGED <<stream, batch_size, checkpoint_interval, max_file_size,
                   use_content_hash, seen, finish_order, rlVars, client,
                   tasks, pc, ret, step, memVars, dbVars, h>>

\* return results
BatchReturn ==
    /\ pc = "batch" /\ joined = Len(issues[idx + 1].attachment)
    /\ pc' = "merge"
    /\ UNCHANGED <<envVars, ret, step, memVars, dbVars, h>>

\* for attachment_id, file_hash, attachment in results:
\*     self._process_attachment_result(...)
MergeBatch ==
    /\ pc = "merge"
    /\ LET r == _process_issue(issues[idx + 1], duplicate_groups, scan_stats)
       IN /\ duplicate_groups' = r.groups
          /\ scan_stats' = r.stats
    /\ downloads' = RequestsOf(issues[idx + 1])
    /\ idx' = idx + 1
    /\ pc' = "issues"
    /\ UNCHANGED <<envVars, ret, step, scan_state, start_at,
                   issues_since_checkpoint, issues, folded, quick_wins,
                   dbVars, h>>

InitPool ==
    /\ stream \in Streams
    /\ finish_order = [k \in 1..MaxAtt |-> k]
    /\ batch_size \in 1..MaxBatch
    /\ checkpoint_interval = 1
    /\ InitDownloadManager
    /\ InitScanner
    /\ InitRateLimiter

NextPool ==
    \/ StartScan
    \/ LoopExit
    \/ FetchPage
    \/ NoAttachments
    \/ SubmitBatch
    \/ \E id \in DOMAIN tasks : WorkerStart(id)
    \/ \E id \in DOMAIN tasks : WorkerFinish(id)
    \/ JoinFuture
    \/ BatchReturn
    \/ MergeBatch
    \/ PageDone
    \/ save_scan_state
    \/ save_scan_stats
    \/ save_duplicate_groups
    \/ save_checkpoint
    \/ Interrupt

SpecPool == InitPool /\ [][NextPool]_vars

\* the ids of the attachments that have been merged into the catalog
MergedIds ==
    UNION {{duplicate_groups[f].locations[i].attachment_id :
              i \in 1..Len(duplicate_groups[f].locations)} :
           f \in DOMAIN duplicate_groups}

\* the key of the issue of an attachment: ids are 10 * key + position
IssueOf(id) == id \div 10

\* C28: download_and_hash_batch returns only when every task it submitted
\* has finished; the catalog and the statistics change only in the merge
\* of the driver that follows the return; and a task starts only for the
\* issue the driver is at, when the attachments of every issue before it
\* have been merged.
BatchJoinAndMerge ==
    [][/\ BatchReturn => \A id \in BatchIds : tasks[id] = "finished"
       /\ (duplicate_groups' # duplicate_groups
           \/ scan_stats' # scan_stats) =>
             \/ MergeBatch
             \/ pc \in {"idle", "done"} \/ pc' = "idle"
       /\ \A id \in DOMAIN tasks :
             (WorkerStart(id) /\ pc # "idle") =>
                /\ idx < Len(issues) /\ id \in BatchIds
                /\ \A a \in StreamAttachments :
                      a.issue_key < IssueOf(id) =>
                         a.attachment.id \in MergedIds
      ]_vars

\* the batch of the second issue has returned after its two tasks, and the
\* results of the first issue are in the catalog
SecondBatchJoined ==
    /\ pc = "merge" /\ Len(issues) >= 1 /\ idx < Len(issues)
    /\ issues[idx + 1].key = 2
    /\ Len(issues[idx + 1].attachment) = 2 /\ joined = 2
    /\ MergedIds # {}

\* C29: a worker step (a task taken or finished) leaves the duplicate
\* catalog, the statistics, the scan state and the store unchanged; the
\* store changes only in steps of the driver, inside _save_progress or
\* when the scan is initialized.
WorkersLeaveSharedState ==
    [][/\ (\E id \in DOMAIN tasks : WorkerStart(id) \/ WorkerFinish(id)) =>
             UNCHANGED <<duplicate_groups, scan_stats, scan_state, dbVars>>
       /\ dbVars' # dbVars =>
             /\ pc \in {"idle", "save"}
             /\ UNCHANGED poolVars
      ]_vars

\* a worker has finished a task of the second issue while the driver still
\* waits for the first future of that batch, with results in the catalog
WorkerFinishedBeforeJoin ==
    /\ pc = "batch" /\ joined = 0 /\ idx < Len(issues)
    /\ duplicate_groups # EmptyMap
    /\ Len(issues[idx + 1].attachment) = 2
    /\ tasks[issues[idx + 1].attachment[2].id] = "finished"
    /\ tasks[issues[idx + 1].attachment[1].id] = "queued"

\* C30: after a KeyboardInterrupt no batch is submitted, and from the
\* moment _save_progress of the except block starts until scan() has
\* exited no task of the executor is running.
CancelWaitsForWorkers ==
    /\ [][h.intrs > 0 => ~SubmitBatch]_vars
    /\ [](h.intrs > 0 => \A id \in DOMAIN tasks : tasks[id] # "running")

\* C31: whenever the driver is at the loop test, fewer than
\* checkpoint_interval issues have been processed since the last
\* _save_progress; when the counter reaches checkpoint_interval at the end
\* of a page, _save_progress starts in that iteration, no page is fetched
\* before it has returned, and its return resets the counter to 0.
CheckpointCadence ==
    /\ [](pc = "loop" => issues_since_checkpoint < checkpoint_interval)
    /\ [][/\ (PageDone /\ issues_since_checkpoint' >= checkpoint_interval) =>
                pc' = "save" /\ ret' = "ckpt" /\ step' = 1
          /\ (pc = "save" /\ ret = "ckpt" /\ pc' = "loop") =>
                save_checkpoint /\ issues_since_checkpoint' = 0
          /\ FetchPage => issues_since_checkpoint < checkpoint_interval
         ]_vars

\* two pages of one issue have been processed with an interval of two: the
\* first page ended without a checkpoint, the second one with the save
CheckpointAfterTwoPages ==
    /\ pc = "loop" /\ h.resumes = 0
    /\ batch_size = 1 /\ checkpoint_interval = 2
    /\ scan_state.processed_issues = 2 /\ issues_since_checkpoint = 0
    /\ ScanId \in DOMAIN db_ckpt

(***************************************************************************)
(* Scans of processes whose configuration file differs: every process      *)
(* reads config['filters'] when it starts, and scan() builds its JQL text  *)
(* from them before it initializes or resumes the scan.                    *)
(***************************************************************************)
\* scan() of a process started with any filters
ScanWithFilters ==
    /\ pc = "idle" /\ ScanId \notin DOMAIN db_scans /\ h.scans = 0
    /\ \E filters \in Filters :
          InitializeScan(ScanId, build_jql_query(filters))

\* scan(resume=True, scan_id) of a process started with any filters
ResumeWithFilters ==
    \E filters \in Filters : ResumeWith(ScanId, build_jql_query(filters))

InitFilters ==
    /\ stream \in Streams
    /\ finish_order = [k \in 1..MaxAtt |-> k]
    /\ batch_size \in 1..MaxBatch
    /\ checkpoint_interval = 1
    /\ InitDownloadManager
    /\ InitScanner
    /\ InitRateLimiter

NextFilters ==
    \/ ScanWithFilters
    \/ ResumeWithFilters
    \/ LoopExit
    \/ FetchPage
    \/ ProcessIssue
    \/ PageDone
    \/ save_scan_state
    \/ save_scan_stats
    \/ save_duplicate_groups
    \/ save_checkpoint
    \/ Interrupt

SpecFilters == InitFilters /\ [][NextFilters]_vars

\* C32: a resumed scan takes total_issues and the JQL text from the scans
\* row, whatever the filters of the resuming process are, and every page
\* is searched with the JQL text the scan was initialized with.
ResumeKeepsPredicate ==
    [][/\ ResumeWithFilters =>
             /\ scan_state'.total_issues = db_scans[ScanId].total_issues
             /\ scan_state'.jql_query = db_scans[ScanId].jql_query
       /\ FetchPage => scan_state.jql_query = h.jql
      ]_vars

(***************************************************************************)
(* The statistics on their own: _process_issue applied to issues of        *)
(* several projects whose attachments have several file extensions.        *)
(***************************************************************************)
\* file names with an upper-case, a lower-case and no extension
FileNames == {<<"a", ".", "B">>, <<"a", ".", "c">>, <<"a">>}

ClassShapes ==
    [size : 1..MaxSize, bytes : 1..MaxContent, project : 1..MaxProjects,
     name : FileNames]

\* the n-th issue, of the shape's project, carries one attachment
Classify(shape) ==
    LET n == Sum(seen) + 1
        att == [MkAttachment(n, 1, shape) EXCEPT !.filename = shape.name]
        issue == [key |-> n, project_key |-> shape.project,
                  attachment |-> <<att>>]
        f == _download_and_hash_single(att)[2]
        r == _process_issue(issue, duplicate_groups, scan_stats)
    IN /\ n <= MaxClassified
       /\ duplicate_groups' = r.groups
       /\ scan_stats' = r.stats
       /\ seen' = Put(seen, f, IF f \in DOMAIN seen THEN seen[f] + 1 ELSE 1)
       /\ downloads' = RequestsOf(issue)
       /\ UNCHANGED <<stream, batch_size, checkpoint_interval, max_file_size,
                      use_content_hash, finish_order, rlVars, client,
                      poolVars, pc, ret, step,
                      scan_state, start_at, issues_since_checkpoint, issues,
                      idx, folded, quick_wins, dbVars, h>>

NextStats == \E shape \in ClassShapes : Classify(shape)

SpecStats == InitMerge /\ [][NextStats]_vars

\* the sum of one counter over the projects or the extensions
SumOf(table, counter) == Sum([k \in DOMAIN table |-> table[k][counter]])

\* C33: the per-project counters add up to total_files, total_size,
\* duplicate_files and duplicate_size, the per-extension counters add up to
\* total_files and total_size, and an attachment adds to the duplicate
\* counters of its project exactly when it adds to the global ones.
SubAggregates ==
    /\ [](/\ SumOf(scan_stats.project_stats, "file_count")
                = scan_stats.total_files
          /\ SumOf(scan_stats.project_stats, "total_size")
                = scan_stats.total_size
          /\ SumOf(scan_stats.project_stats, "duplicate_count")
                = scan_stats.duplicate_files
          /\ SumOf(scan_stats.project_stats, "duplicate_size")
                = scan_stats.duplicate_size
          /\ SumOf(scan_stats.file_type_stats, "count")
                = scan_stats.total_files
          /\ SumOf(scan_stats.file_type_stats, "total_size")
                = scan_stats.total_size)
    /\ [][\A shape \in ClassShapes : Classify(shape) =>
             LET old == IF shape.project \in DOMAIN scan_stats.project_stats
                        THEN scan_stats.project_stats[shape.project]
                        ELSE [duplicate_count |-> 0, duplicate_size |-> 0]
                 new == scan_stats'.project_stats[shape.project]
             IN /\ new.duplicate_count - old.duplicate_count
                      = scan_stats'.duplicate_files
                        - scan_stats.duplicate_files
                /\ new.duplicate_size - old.duplicate_size
                      = scan_stats'.duplicate_size - scan_stats.duplicate_size
         ]_vars

\* two projects and two extensions are in the statistics, and a duplicate
\* was found in a project that holds no canonical file
DuplicateInOtherProject ==
    /\ Cardinality(DOMAIN scan_stats.project_stats) = 2
    /\ Cardinality(DOMAIN scan_stats.file_type_stats) >= 2
    /\ \E p \in DOMAIN scan_stats.project_stats :
          /\ scan_stats.project_stats[p].duplicate_count = 1
          /\ scan_stats.project_stats[p].file_count = 1
    /\ scan_stats.canonical_files = 2

\* C34: in every state total_files = canonical_files + duplicate_files, and
\* duplicate_files is the sum of duplicate_count over the groups.
TotalsSplit ==
    /\ scan_stats.total_files
          = scan_stats.canonical_files + scan_stats.duplicate_files
    /\ scan_stats.duplicate_files
          = Sum([f \in DOMAIN duplicate_groups |->
                    duplicate_groups[f].duplicate_count])

\* C35: when _save_progress has completed, _resume_scan of the scan builds
\* from the store the statistics and the groups that were saved, with the
\* locations of every group in their order, the saved processed_issues and
\* total_issues and the saved offset; and when scan() has returned, the
\* statistics and groups of the store are those of the returned results.
StoreRoundTrip ==
    /\ [][save_checkpoint =>
             /\ _resume_scan(ScanId, build_jql_query(DefaultFilters))'
                   .scan_stats = scan_stats
             /\ _resume_scan(ScanId, build_jql_query(DefaultFilters))'
                   .duplicate_groups = duplicate_groups
             /\ _resume_scan(ScanId, build_jql_query(DefaultFilters))'
                   .scan_state.processed_issues = scan_state.processed_issues
             /\ _resume_scan(ScanId, build_jql_query(DefaultFilters))'
                   .scan_state.total_issues = scan_state.total_issues
             /\ _resume_scan(ScanId, build_jql_query(DefaultFilters))'
                   .scan_state.last_start_at = scan_state.last_start_at
         ]_vars
    /\ [](pc = "done" =>
             /\ StatsOfRow(db_stats[ScanId]) = scan_stats
             /\ get_duplicate_groups(ScanId) = duplicate_groups)

\* the scan has just been resumed from the progress saved at an interrupt:
\* a group with two locations and the statistics are loaded as stored
LoadedAfterInterrupt ==
    /\ pc = "loop" /\ issues = <<>>
    /\ h.resumes = 1 /\ h.intrs = 1 /\ h.faults = 0
    /\ scan_state.processed_issues >= 1
    /\ scan_stats.total_files >= 2
    /\ StatsRow(scan_stats) = db_stats[ScanId]
    /\ \E f \in DOMAIN duplicate_groups :
          /\ Len(duplicate_groups[f].locations) = 2
          /\ GroupRow(duplicate_groups[f]) = db_groups[<<ScanId, f>>]

(***************************************************************************)
(* The store on its own: StorageManager's write operations are called one  *)
(* at a time, each of them once or twice in a row with the same arguments, *)
(* while the clock advances.  step is the operation called last, ret tells *)
(* whether it was called once or twice, and scan_state, scan_stats and     *)
(* duplicate_groups hold its arguments.                                    *)
(***************************************************************************)
\* scan states, statistics and catalogs given to the operations
StateArgs ==
    [scan_id : 1..2, status : {"running"}, total_issues : {2},
     processed_issues : {0}, last_start_at : 0..1,
     completion_time : {None},
     jql_query : {build_jql_query(DefaultFilters)}]

CatalogArgs ==
    {FoldIssues(s, EmptyMap, _initialize_stats) :
        s \in {t \in StreamsStore : Len(t) >= 1}}

\* the arguments an operation does not take
NoCatalog == [groups |-> EmptyMap, stats |-> _initialize_stats]
OnlyId == {state \in StateArgs : state.last_start_at = 0}

RowCount ==
    Cardinality(DOMAIN db_scans) + Cardinality(DOMAIN db_stats)
    + Cardinality(DOMAIN db_groups) + Cardinality(DOMAIN db_ckpt)

\* the call is the second one of the operation, with the arguments of the
\* first; or it is a new call
Repeats(again, op, state, catalog) ==
    IF again
    THEN /\ step = op /\ ret = "once"
         /\ scan_state = state
         /\ scan_stats = catalog.stats /\ duplicate_groups = catalog.groups
    ELSE RowCount < MaxRows

Called(again, op, state, catalog) ==
    /\ step' = op /\ ret' = IF again THEN "twice" ELSE "once"
    /\ scan_state' = state
    /\ scan_stats' = catalog.stats /\ duplicate_groups' = catalog.groups
    /\ UNCHANGED <<envVars, pc, start_at, issues_since_checkpoint, issues,
                   idx, folded, downloads, quick_wins, db_folded, committed,
                   h>>

\* storage.save_scan_state(scan_state)
CallSaveScanState(again, state, catalog) ==
    /\ Repeats(again, 1, state, catalog)
    /\ db_scans' = Put(db_scans, state.scan_id, ScanRow(state))
    /\ Called(again, 1, state, catalog)
    /\ UNCHANGED <<db_stats, db_groups, db_ckpt>>

\* storage.save_scan_stats(scan_id, scan_stats)
CallSaveScanStats(again, state, catalog) ==
    /\ Repeats(again, 2, state, catalog)
    /\ db_stats' = Put(db_stats, state.scan_id, StatsRow(catalog.stats))
    /\ Called(again, 2, state, catalog)
    /\ UNCHANGED <<db_scans, db_groups, db_ckpt>>

\* storage.save_duplicate_groups(scan_id, duplicate_groups)
CallSaveDuplicateGroups(again, state, catalog) ==
    /\ Repeats(again, 3, state, catalog)
    /\ db_groups' = UpsertGroups(db_groups, state.scan_id, catalog.groups)
    /\ Called(again, 3, state, catalog)
    /\ UNCHANGED <<db_scans, db_stats, db_ckpt>>

\* storage.save_checkpoint(scan_id, last_issue_key, last_start_at, set())
CallSaveCheckpoint(again, state, catalog) ==
    /\ Repeats(again, 4, state, catalog)
    /\ db_ckpt' = Put(db_ckpt, state.scan_id, CheckpointRow(state))
    /\ Called(again, 4, state, catalog)
    /\ UNCHANGED <<db_scans, db_stats, db_groups>>

StoreCall ==
    \E again \in BOOLEAN :
        \/ \E state \in StateArgs :
              \/ CallSaveScanState(again, state, NoCatalog)
              \/ CallSaveCheckpoint(again, state, NoCatalog)
        \/ \E state \in OnlyId, catalog \in CatalogArgs :
              \/ CallSaveScanStats(again, state, catalog)
              \/ CallSaveDuplicateGroups(again, state, catalog)

\* the clock advances between the two calls
TickBetweenCalls == ret = "once" /\ Tick

NextUpsert ==
    \/ StoreCall
    \/ TickBetweenCalls

SpecUpsert == InitRL /\ [][NextUpsert]_vars

\* the rows of the scans other than scan_id are the same in both states
OthersKept(scan_id) ==
    /\ \A id \in (DOMAIN db_scans \cup DOMAIN db_scans') \ {scan_id} :
          id \in DOMAIN db_scans /\ id \in DOMAIN db_scans'
          /\ db_scans'[id] = db_scans[id]
    /\ \A id \in (DOMAIN db_stats \cup DOMAIN db_stats') \ {scan_id} :
          id \in DOMAIN db_stats /\ id \in DOMAIN db_stats'
          /\ db_stats'[id] = db_stats[id]
    /\ \A id \in (DOMAIN db_ckpt \cup DOMAIN db_ckpt') \ {scan_id} :
          id \in DOMAIN db_ckpt /\ id \in DOMAIN db_ckpt'
          /\ db_ckpt'[id] = db_ckpt[id]
    /\ \A k \in DOMAIN db_groups \cup DOMAIN db_groups' :
          k[1] # scan_id =>
             /\ k \in DOMAIN db_groups /\ k \in DOMAIN db_groups'
             /\ db_groups'[k] = db_groups[k]

\* C36: the second of two calls of a write operation with the same
\* arguments leaves the four tables as the first call left them, and no
\* call changes a row of another scan.
UpsertsIdempotent ==
    [][/\ (ret = "once" /\ ret' = "twice") =>
             <<db_scans', db_stats', db_groups', db_ckpt'>>
                = <<db_scans, db_stats, db_groups, db_ckpt>>
       /\ StoreCall => OthersKept(scan_state'.scan_id)
      ]_vars

\* C37: a checkpoint written when an issue of the page has been processed
\* records the key of the last processed issue as last_issue_key.
LastKeyRecorded ==
    [][(save_checkpoint /\ idx >= 1) =>
          db_ckpt'[scan_state.scan_id].last_issue_key = issues[idx].key
      ]_vars

(***************************************************************************)
(* Termination.  scan() is sequential code: as long as the calls it makes  *)
(* return or raise, the driver takes its next step.  The environment may   *)
(* disturb the scan as in Spec, with no obligation to do so.               *)
(***************************************************************************)
\* a step of the driver inside scan()
DriverStep ==
    \/ LoopExit
    \/ FetchPage
    \/ ProcessIssue
    \/ PageDone
    \/ save_scan_state
    \/ save_scan_stats
    \/ save_duplicate_groups
    \/ save_checkpoint

InitLive ==
    /\ stream \in StreamsStore
    /\ finish_order = [k \in 1..MaxAtt |-> k]
    /\ batch_size \in 1..MaxBatch
    /\ checkpoint_interval \in 1..MaxInterval
    /\ InitDownloadManager
    /\ InitScanner
    /\ InitRateLimiter

SpecLive == InitLive /\ [][Next]_vars /\ WF_vars(DriverStep)

\* C38: a scan that has been started or resumed eventually ends; each
\* iteration of its loop moves the offset by batch_size; a scan that
\* returns has the status 'completed', and one that exits with the
\* exception or the interrupt that ended its loop has saved its progress.
Termination ==
    /\ (pc \notin {"idle", "done"}) ~> (pc \in {"idle", "done"})
    /\ [](pc = "done" => scan_state.status = "completed")
    /\ [][/\ (pc \in {"issues", "save"} /\ pc' = "loop") =>
                start_at' = start_at + batch_size
          /\ (h'.raised \in {"KeyboardInterrupt", "Exception"}
              /\ h.raised = "none") =>
                pc' = "idle" /\ ProgressSaved
         ]_vars

\* a scan of two pages has returned without any resume
TwoPagesDone ==
    /\ pc = "done" /\ h.resumes = 0 /\ batch_size = 1
    /\ scan_state.processed_issues = 2 /\ start_at = 2
    /\ scan_state.status = "completed"

====
